---- MODULE Spec2Model ----
(***************************************************************************)
(* Verification model of the graphics-course practice programs.           *)
(*                                                                         *)
(* Every program is a single-threaded main(): a start-up sequence (SDL,   *)
(* window, GL context, GLEW, shaders, programs) inside a function-level   *)
(* try block, followed by a render loop.  The start-up of all programs is *)
(* modelled by SpecStartup; the frame of the instancing program           *)
(* (practice14) by SpecP14; the frame of the Sponza shadow-mapping        *)
(* program by SpecSponza.                                                  *)
(* Further specifications follow single parts: SpecShadow (the shadow     *)
(* factor), SpecQueries and SpecQueriesLive (the timer queries), SpecP15   *)
(* and SpecWrap (the text program), SpecBezier, SpecScene (the material    *)
(* ranges), SpecHomework and SpecPause (key handling), SpecMetaballs.      *)
(*                                                                         *)
(* Text is modelled as sequences of characters; a std::string may hold    *)
(* NUL characters, a const char * ends at the first NUL.                  *)
(***************************************************************************)
EXTENDS Integers, Sequences, FiniteSets, TLC

VARIABLES
    prog,          \* which program (which main) is running
    pc,            \* position of main: "startup", "loop", ..., "exited"
    step,          \* index of the next start-up statement of the program
    window,        \* SDL_Window *window is non-null
    gl_context,    \* SDL_GLContext gl_context is non-null
    sdl_error,     \* SDL's error buffer, what SDL_GetError() returns
    thrown,        \* what() string of the exception in flight / caught, or NoException
    stderr_out,    \* text written to std::cerr
    exit_status,   \* return value of main
    frames,        \* render-loop iterations that reached the buffer swap
    history,       \* ghost: start-up statements executed so far, in order
    supplied,      \* ghost: string handed over by the failing layer
    \* ---- practice14: instancing with frustum culling and LOD; running,
    \* ---- paused, time, button_down, width and height are locals that the
    \* ---- main of the Sponza program declares and handles alike
    num_meshes,        \* input_model.meshes.size() = vbos.size() = vaos.size()
    running,           \* bool running
    paused,            \* bool paused
    time,              \* float time, in ticks
    button_down,       \* the keys k with button_down[k] = true
    camera_position,   \* glm::vec3 camera_position, in half units
    camera_rotation,   \* float camera_rotation, in quarter turns
    width, height,     \* window size
    queries,           \* std::vector<Query>: records id, available
    firstFreeQuery,    \* index in queries of the reference firstFreeQuery
    gpu,               \* GL side of each query id: "idle", "ended", "ready"
    frustum_offsets,   \* std::vector<glm::vec3> of the last frame
    lod_offsets,       \* std::vector<std::vector<glm::vec3>> of the last frame
    buffers,           \* data store of each instance buffer vbos[lod]
    draws,             \* the draw calls of the last frame
    visible_items,     \* the number last printed after "visible items:"
    seen,              \* ghost: buckets of earlier frames, by pose and window size
    logged,            \* the ids of the result lines the last logQueries printed, in order
    age,               \* ghost: per query id, the logQueries calls that found its result pending
    \* ---- Sponza: shadow mapping ----
    gl_program,          \* GL state: the program made current by glUseProgram
    gl_draw_framebuffer, \* GL state: the binding of GL_DRAW_FRAMEBUFFER
    gl_uniform,          \* GL state: value of the uniform at each location
    shadow_map_texture,  \* what the colour attachment of shadow_fbo holds
    frame_draws,         \* ghost: the draws issued in the current frame, in order
    \* ---- Sponza: one fragment of the main pass ----
    data,                \* vec2 data = blur(shadow_pos): .r the mean, .g the second moment
    shadow_pos_z,        \* shadow_pos.z, the depth of the fragment seen from the sun
    shadow,              \* the value shadow_factor returned
    \* ---- practice15: text ----
    text,                \* std::string text, a sequence of characters
    text_changed,        \* bool text_changed
    vbo_size,            \* vertices in the data store of vbo (0 before the first upload)
    transform,           \* what glm::mat4 transform was computed from
    draw_count,          \* count of the last glDrawArrays
    polled,              \* ghost: the events the last iteration polled
    since_change,        \* ghost: frame time summed since the last frame that laid out a changed text
    unwrapped,           \* ghost: the text as it was before the line breaks were inserted
    \* ---- the Bezier program; it also has running, time, width, height ----
    vertices,            \* std::vector<vertex> vertices, the control points
    color,               \* static int color
    quality,             \* int quality
    need_redraw,         \* bool need_redraw
    vertices_bez,        \* std::vector<vertex> vertices_bez
    vbo,                 \* data store of vbo
    vbo_bez,             \* data store of vbo_bez
    \* ---- Sponza: the scene and its material ranges ----
    shapes,              \* reader.GetShapes(): per shape the mesh (material_ids, indices.size())
    scene_vertices,      \* scene.vertices.size()
    faces,               \* std::vector<std::pair<int, int>> faces
    emitted,             \* ghost: the elements of faces by the shape whose pass emplaced them
    \* ---- homework1 and the moving-disc program; they also have running,
    \* ---- paused, time (in steps of dSpeed), width, height
    key_down,            \* the scancodes k with key_down[k] = true
    speed,               \* float speed, in steps of dSpeed
    shader_variation,    \* int shader_variation (homework1)
    \* ---- the metaball field program; it also has running, key_down, width, height
    metaballs,           \* std::vector<metaball> metaballs: position and direction, in tenths
    \* ---- the run explored ----
    session              \* keys and window sizes the user uses, frame times, frames
                         \* looked at, GPU latency in frames, further bursts of
                         \* events SDL can have queued

startupVars == <<prog, pc, step, window, gl_context, sdl_error, thrown,
                 stderr_out, exit_status, frames, history, supplied>>

p14Vars == <<num_meshes, running, paused, time, button_down, camera_position,
             camera_rotation, width, height, queries, firstFreeQuery, gpu,
             frustum_offsets, lod_offsets, buffers, draws,
             visible_items, seen, logged, age>>

\* the variables that only the frame of practice14 writes
p14Frame == <<num_meshes, camera_position, camera_rotation, queries,
              firstFreeQuery, gpu, frustum_offsets, lod_offsets, buffers,
              draws, visible_items, seen, logged, age>>

sponzaVars == <<gl_program, gl_draw_framebuffer, gl_uniform,
                shadow_map_texture, frame_draws>>

shaderVars == <<data, shadow_pos_z, shadow>>

\* the variables of the sections after the frames of practice14 and Sponza
p15Vars == <<text, text_changed, vbo_size, transform, draw_count, polled,
             since_change>>

\* the variables of the sections after practice15
bezierVars == <<vertices, color, quality, need_redraw, vertices_bez, vbo, vbo_bez>>

sceneVars == <<shapes, scene_vertices, faces, emitted>>

hwVars == <<key_down, speed, shader_variation>>

lateVars == <<unwrapped, bezierVars, sceneVars, hwVars, metaballs>>

\* p15Vars without polled
p15Text == <<text, text_changed, vbo_size, transform, draw_count, since_change>>

otherVars == <<shaderVars, p15Vars, session, lateVars>>

vars == <<startupVars, p14Vars, sponzaVars, otherVars>>

----------------------------------------------------------------------------
(* Bounds *)

MaxStrLen == 2      \* longest error string / info log supplied by a library
MaxFrames == 2      \* render-loop iterations explored

----------------------------------------------------------------------------
(* Text *)

NUL == "NUL"
Chars == {"x", "y"}

RECURSIVE StringsOfLen(_)
StringsOfLen(n) ==
    IF n = 0 THEN {<<>>}
    ELSE {<<c>> \o s : c \in Chars, s \in StringsOfLen(n - 1)}

\* every text a library can supply as an error string or an info log
LibStrings == UNION {StringsOfLen(n) : n \in 0..MaxStrLen}

SetMin(S) == CHOOSE m \in S : \A k \in S : m <= k

\* reading a const char *: the characters before the first NUL
CStr(s) ==
    LET nuls == {i \in 1..Len(s) : s[i] = NUL}
    IN  IF nuls = {} THEN s ELSE SubSeq(s, 1, SetMin(nuls) - 1)

\* std::string(n, '\0')
Fill(n) == [i \in 1..n |-> NUL]

\* t occurs in s as a contiguous run of characters
Contains(s, t) ==
    \E i \in 0..(Len(s) - Len(t)) : SubSeq(s, i + 1, i + Len(t)) = t

NoException == <<"no exception">>
endl == <<"\n">>

----------------------------------------------------------------------------
(* Start-up sequences: the statements of each main() from SDL_Init to the  *)
(* last create_program, in program order, with the line that holds them.   *)

St(kind, line) == [kind |-> kind, line |-> line]

Startup_practice14 ==
    << St("SDL_Init", 181), St("SDL_CreateWindow", 195), St("check_window", 200),
       St("SDL_GL_CreateContext", 206), St("check_gl_context", 207),
       St("glewInit", 210), St("GLEW_VERSION_3_3", 213),
       St("create_shader", 216), St("create_shader", 217),
       St("create_program", 219) >>

Startup_practice15 ==
    << St("SDL_Init", 144), St("SDL_CreateWindow", 155), St("check_window", 160),
       St("SDL_GL_CreateContext", 165), St("check_gl_context", 166),
       St("glewInit", 168), St("GLEW_VERSION_3_3", 171),
       St("create_shader", 174), St("create_shader", 176),
       St("create_program", 178) >>

Startup_practice4 ==
    << St("SDL_Init", 126), St("SDL_CreateWindow", 140), St("check_window", 145),
       St("SDL_GL_CreateContext", 151), St("check_gl_context", 152),
       St("glewInit", 155), St("GLEW_VERSION_3_3", 158),
       St("create_shader", 163), St("create_shader", 164),
       St("create_program", 166), St("SDL_GL_SetSwapInterval", 168) >>

Startup_practice5_a ==
    << St("SDL_Init", 159), St("SDL_GL_SetSwapInterval", 172),
       St("SDL_CreateWindow", 174), St("check_window", 179),
       St("SDL_GL_CreateContext", 185), St("check_gl_context", 186),
       St("glewInit", 189), St("GLEW_VERSION_3_3", 192),
       St("create_shader", 197), St("create_shader", 198),
       St("create_program", 200) >>

Startup_practice5_b ==
    << St("SDL_Init", 521), St("SDL_CreateWindow", 524), St("check_window", 530),
       St("SDL_GL_CreateContext", 541), St("SDL_GL_SetSwapInterval", 542),
       St("check_gl_context", 544),
       St("glewInit", 547), St("GLEW_VERSION_3_3", 550),
       St("create_shader", 555), St("create_shader", 556),
       St("create_program", 558) >>

Startup_homework1 ==
    << St("SDL_Init", 271), St("SDL_CreateWindow", 273), St("check_window", 278),
       St("SDL_GL_CreateContext", 294), St("SDL_GL_SetSwapInterval", 295),
       St("check_gl_context", 297),
       St("glewInit", 299), St("GLEW_VERSION_3_3", 302),
       St("create_shader", 307), St("create_shader", 308),
       St("create_program", 310) >>

Startup_bezier ==
    << St("SDL_Init", 171), St("SDL_CreateWindow", 181), St("check_window", 187),
       St("SDL_GL_CreateContext", 193), St("check_gl_context", 194),
       St("SDL_GL_SetSwapInterval", 197),
       St("glewInit", 199), St("GLEW_VERSION_3_3", 202),
       St("create_shader", 207), St("create_shader", 208),
       St("create_program", 209) >>

Startup_sponza ==
    << St("SDL_Init", 504), St("SDL_CreateWindow", 516), St("check_window", 520),
       St("SDL_GL_CreateContext", 526), St("check_gl_context", 527),
       St("glewInit", 530), St("GLEW_VERSION_3_3", 533),
       St("create_shader", 538), St("create_shader", 539),
       St("create_shader", 541), St("create_shader", 543),
       St("create_shader", 545), St("create_shader", 547),
       St("create_shader", 549), St("create_shader", 551),
       St("create_program", 557), St("create_program", 558),
       St("create_program", 560), St("create_program", 562) >>

Startup_triangle ==
    << St("SDL_Init", 76), St("SDL_CreateWindow", 79), St("check_window", 84),
       St("SDL_GL_CreateContext", 92), St("check_gl_context", 93),
       St("glewInit", 96), St("GLEW_VERSION_3_3", 99),
       St("create_shader", 123), St("create_shader", 140),
       St("create_program", 141) >>

Startup_metaballs ==
    << St("SDL_Init", 249), St("SDL_CreateWindow", 252), St("check_window", 256),
       St("SDL_GL_CreateContext", 272), St("SDL_GL_SetSwapInterval", 273),
       St("check_gl_context", 275),
       St("glewInit", 278), St("GLEW_VERSION_3_3", 281),
       St("create_shader", 284), St("create_shader", 285),
       St("create_program", 287) >>

Startup_disc ==
    << St("SDL_Init", 572), St("SDL_CreateWindow", 575), St("check_window", 580),
       St("SDL_GL_CreateContext", 597), St("SDL_GL_SetSwapInterval", 598),
       St("check_gl_context", 600),
       St("glewInit", 603), St("GLEW_VERSION_3_3", 606),
       St("create_shader", 611), St("create_shader", 612),
       St("create_program", 614) >>

Programs ==
    {"practice14", "practice15", "practice4", "practice5_a", "practice5_b",
     "homework1", "bezier", "sponza", "triangle", "metaballs", "disc"}

StartupOf(p) ==
    CASE p = "practice14"  -> Startup_practice14
      [] p = "practice15"  -> Startup_practice15
      [] p = "practice4"   -> Startup_practice4
      [] p = "practice5_a" -> Startup_practice5_a
      [] p = "practice5_b" -> Startup_practice5_b
      [] p = "homework1"   -> Startup_homework1
      [] p = "bezier"      -> Startup_bezier
      [] p = "sponza"      -> Startup_sponza
      [] p = "triangle"    -> Startup_triangle
      [] p = "metaballs"   -> Startup_metaballs
      [] p = "disc"        -> Startup_disc

\* the start-up statements the error-handling contract names as steps
InitKinds ==
    {"SDL_Init", "SDL_CreateWindow", "SDL_GL_CreateContext", "glewInit",
     "create_shader", "create_program"}

----------------------------------------------------------------------------
(* Exceptions and the function-level catch of main() *)

\* sdl2_fail: runtime_error(to_string(message) + SDL_GetError())
sdl2_fail(message, SDL_GetError) == <<message>> \o SDL_GetError

\* glew_fail: runtime_error(to_string(message) + glewGetErrorString(error))
glew_fail(message, glewGetErrorString) == <<message>> \o glewGetErrorString

\* GL_INFO_LOG_LENGTH: 0 when there is no log, else its length with the NUL
InfoLogLength(log) == IF log = <<>> THEN 0 ELSE Len(log) + 1

\* glGetShaderInfoLog / glGetProgramInfoLog into buf with room for bufSize
\* characters: at most bufSize - 1 characters of the log, then a NUL
GetInfoLog(log, bufSize, buf) ==
    LET n == IF Len(log) < bufSize - 1 THEN Len(log) ELSE bufSize - 1
        written == IF bufSize <= 0 THEN <<>> ELSE SubSeq(log, 1, n) \o <<NUL>>
    IN  [i \in 1..Len(buf) |-> IF i <= Len(written) THEN written[i] ELSE buf[i]]

\* mutant: the log is fetched with a buffer size one short of its length
PrefixedFailure_short(prefix, log) ==
    LET info_log_length == InfoLogLength(log)
        info_log == GetInfoLog(log, info_log_length - 1, Fill(info_log_length))
    IN  <<prefix>> \o info_log

\* create_shader and create_program with a prefix: the std::string info_log,
\* its trailing NUL included, is appended to the prefix
PrefixedFailure(prefix, log) ==
    LET info_log_length == InfoLogLength(log)
        info_log == GetInfoLog(log, info_log_length, Fill(info_log_length))
    IN  <<prefix>> \o info_log

\* create_shader and create_program of the triangle program: the message is
\* the const char * log_msg.data()
BareFailure(log) ==
    LET info_log_length == InfoLogLength(log)
        log_msg == GetInfoLog(log, info_log_length, Fill(info_log_length))
    IN  CStr(log_msg)

create_shader_failure(p, log) ==
    IF p = "triangle" THEN BareFailure(log)
    ELSE PrefixedFailure("Shader compilation failed: ", log)

create_program_failure(p, log) ==
    IF p = "triangle" THEN BareFailure(log)
    ELSE PrefixedFailure("Program linkage failed: ", log)

\* mutant: the handler prints but falls off the end of main
TopLevelCatch_noreturn(what) ==
    /\ thrown' = what
    /\ stderr_out' = stderr_out \o CStr(what) \o endl
    /\ exit_status' = "EXIT_SUCCESS"
    /\ pc' = "exited"

\* catch (std::exception const &e): std::cerr << e.what() << std::endl;
\* return EXIT_FAILURE
TopLevelCatch(what) ==
    /\ thrown' = what
    /\ stderr_out' = stderr_out \o CStr(what) \o endl
    /\ exit_status' = "EXIT_FAILURE"
    /\ pc' = "exited"

----------------------------------------------------------------------------
(* Start-up statements *)

Cur == StartupOf(prog)[step]

AtStep(kind) ==
    /\ pc = "startup"
    /\ step <= Len(StartupOf(prog))
    /\ Cur.kind = kind

Record(ok) == history' = Append(history, [kind |-> Cur.kind, line |-> Cur.line, ok |-> ok])

\* the statement succeeded: go on with the next one
Advance ==
    /\ step' = step + 1
    /\ pc' = IF step + 1 > Len(StartupOf(prog)) THEN "loop" ELSE "startup"
    /\ UNCHANGED <<thrown, stderr_out, exit_status>>

\* if (SDL_Init(SDL_INIT_VIDEO) != 0) sdl2_fail("SDL_Init: ");
Do_SDL_Init ==
    /\ AtStep("SDL_Init")
    /\ \/ /\ Record(TRUE)
          /\ Advance
          /\ UNCHANGED <<sdl_error, supplied>>
       \/ \E err \in LibStrings :
          /\ Record(FALSE)
          /\ sdl_error' = err
          /\ supplied' = err
          /\ TopLevelCatch(sdl2_fail("SDL_Init: ", err))
          /\ UNCHANGED step
    /\ UNCHANGED <<prog, window, gl_context, frames>>
    /\ UNCHANGED <<p14Vars, sponzaVars>>
    /\ UNCHANGED otherVars

\* SDL_Window *window = SDL_CreateWindow(...);
Do_SDL_CreateWindow ==
    /\ AtStep("SDL_CreateWindow")
    /\ \/ /\ Record(TRUE)
          /\ window' = TRUE
          /\ UNCHANGED sdl_error
       \/ \E err \in LibStrings :
          /\ Record(FALSE)
          /\ window' = FALSE
          /\ sdl_error' = err
    /\ Advance
    /\ UNCHANGED <<prog, gl_context, frames, supplied>>
    /\ UNCHANGED <<p14Vars, sponzaVars>>
    /\ UNCHANGED otherVars

\* if (!window) sdl2_fail("SDL_CreateWindow: ");
Do_check_window ==
    /\ AtStep("check_window")
    /\ IF window
       THEN /\ Advance
            /\ UNCHANGED supplied
       ELSE /\ supplied' = sdl_error
            /\ TopLevelCatch(sdl2_fail("SDL_CreateWindow: ", sdl_error))
            /\ UNCHANGED step
    /\ UNCHANGED <<prog, window, gl_context, sdl_error, frames, history>>
    /\ UNCHANGED <<p14Vars, sponzaVars>>
    /\ UNCHANGED otherVars

\* SDL_GLContext gl_context = SDL_GL_CreateContext(window);
Do_SDL_GL_CreateContext ==
    /\ AtStep("SDL_GL_CreateContext")
    /\ \/ /\ Record(TRUE)
          /\ gl_context' = TRUE
          /\ UNCHANGED sdl_error
       \/ \E err \in LibStrings :
          /\ Record(FALSE)
          /\ gl_context' = FALSE
          /\ sdl_error' = err
    /\ Advance
    /\ UNCHANGED <<prog, window, frames, supplied>>
    /\ UNCHANGED <<p14Vars, sponzaVars>>
    /\ UNCHANGED otherVars

\* SDL_GL_SetSwapInterval(0): its result is ignored; without a current
\* context it fails and leaves its own text in SDL's error buffer
Do_SDL_GL_SetSwapInterval ==
    /\ AtStep("SDL_GL_SetSwapInterval")
    /\ \/ /\ gl_context
          /\ UNCHANGED sdl_error
       \/ \E err \in LibStrings : sdl_error' = err
    /\ Record(TRUE)
    /\ Advance
    /\ UNCHANGED <<prog, window, gl_context, frames, supplied>>
    /\ UNCHANGED <<p14Vars, sponzaVars>>
    /\ UNCHANGED otherVars

\* mutant: the null check of the context is missing
Do_check_gl_context_missing ==
    /\ AtStep("check_gl_context")
    /\ Advance
    /\ UNCHANGED <<prog, window, gl_context, sdl_error, frames, history, supplied>>
    /\ UNCHANGED <<p14Vars, sponzaVars>>
    /\ UNCHANGED otherVars

\* if (!gl_context) sdl2_fail("SDL_GL_CreateContext: ");
Do_check_gl_context ==
    /\ AtStep("check_gl_context")
    /\ IF gl_context
       THEN /\ Advance
            /\ UNCHANGED supplied
       ELSE /\ supplied' = sdl_error
            /\ TopLevelCatch(sdl2_fail("SDL_GL_CreateContext: ", sdl_error))
            /\ UNCHANGED step
    /\ UNCHANGED <<prog, window, gl_context, sdl_error, frames, history>>
    /\ UNCHANGED <<p14Vars, sponzaVars>>
    /\ UNCHANGED otherVars

\* if (auto result = glewInit(); result != GLEW_NO_ERROR) glew_fail(...)
Do_glewInit ==
    /\ AtStep("glewInit")
    /\ \/ /\ Record(TRUE)
          /\ Advance
          /\ UNCHANGED supplied
       \/ \E err \in LibStrings :
          /\ Record(FALSE)
          /\ supplied' = err
          /\ TopLevelCatch(glew_fail("glewInit: ", err))
          /\ UNCHANGED step
    /\ UNCHANGED <<prog, window, gl_context, sdl_error, frames>>
    /\ UNCHANGED <<p14Vars, sponzaVars>>
    /\ UNCHANGED otherVars

\* if (!GLEW_VERSION_3_3) throw std::runtime_error("OpenGL 3.3 is not supported");
Do_GLEW_VERSION_3_3 ==
    /\ AtStep("GLEW_VERSION_3_3")
    /\ \/ /\ Record(TRUE)
          /\ Advance
       \/ /\ Record(FALSE)
          /\ TopLevelCatch(<<"OpenGL 3.3 is not supported">>)
          /\ UNCHANGED step
    /\ UNCHANGED <<prog, window, gl_context, sdl_error, frames, supplied>>
    /\ UNCHANGED <<p14Vars, sponzaVars>>
    /\ UNCHANGED otherVars

\* create_shader(type, source)
Do_create_shader ==
    /\ AtStep("create_shader")
    /\ \/ /\ Record(TRUE)
          /\ Advance
          /\ UNCHANGED supplied
       \/ \E log \in LibStrings :
          /\ Record(FALSE)
          /\ supplied' = log
          /\ TopLevelCatch(create_shader_failure(prog, log))
          /\ UNCHANGED step
    /\ UNCHANGED <<prog, window, gl_context, sdl_error, frames>>
    /\ UNCHANGED <<p14Vars, sponzaVars>>
    /\ UNCHANGED otherVars

\* create_program(shaders...)
Do_create_program ==
    /\ AtStep("create_program")
    /\ \/ /\ Record(TRUE)
          /\ Advance
          /\ UNCHANGED supplied
       \/ \E log \in LibStrings :
          /\ Record(FALSE)
          /\ supplied' = log
          /\ TopLevelCatch(create_program_failure(prog, log))
          /\ UNCHANGED step
    /\ UNCHANGED <<prog, window, gl_context, sdl_error, frames>>
    /\ UNCHANGED <<p14Vars, sponzaVars>>
    /\ UNCHANGED otherVars

----------------------------------------------------------------------------
(* The render loop of every main(): while (running) { for (SDL_Event event; *)
(* SDL_PollEvent(&event);) switch ...; if (!running) break; ...draw...;     *)
(* SDL_GL_SwapWindow(window); } SDL_GL_DeleteContext(gl_context);           *)
(* SDL_DestroyWindow(window);  The statements are listed in program order   *)
(* with the line that holds them.                                           *)

Loop(poll, check, draw, swap, delete, destroy) ==
    [ body    |-> << St("SDL_PollEvent", poll), St("check_running", check),
                     St("draw", draw), St("SDL_GL_SwapWindow", swap) >>,
      cleanup |-> << St("SDL_GL_DeleteContext", delete),
                     St("SDL_DestroyWindow", destroy) >> ]

LoopOf(p) ==
    CASE p = "practice14"  -> Loop(315, 341, 452, 458, 466, 467)
      [] p = "practice15"  -> Loop(245, 278, 388, 389, 392, 393)
      [] p = "practice4"   -> Loop(222, 259, 311, 318, 321, 322)
      [] p = "practice5_a" -> Loop(282, 306, 383, 386, 389, 390)
      [] p = "practice5_b" -> Loop(587, 625, 650, 653, 656, 657)
      [] p = "homework1"   -> Loop(370, 406, 448, 450, 453, 454)
      [] p = "bezier"      -> Loop(253, 301, 337, 347, 350, 351)
      [] p = "sponza"      -> Loop(859, 884, 1022, 1140, 1142, 1143)
      [] p = "triangle"    -> Loop(149, 157, 163, 164, 167, 168)
      [] p = "metaballs"   -> Loop(342, 366, 393, 395, 398, 399)
      [] p = "disc"        -> Loop(674, 710, 751, 753, 756, 757)

\* what SDL has queued when an iteration starts polling
LoopBursts ==
    { <<>>, <<"SDL_KEYDOWN">>, <<"SDL_QUIT">>, <<"SDL_QUIT", "SDL_KEYDOWN">>,
      <<"SDL_KEYDOWN", "SDL_QUIT", "SDL_KEYDOWN">> }

Executed(sts) ==
    [i \in DOMAIN sts |-> [kind |-> sts[i].kind, line |-> sts[i].line, ok |-> TRUE]]

\* for (SDL_Event event; SDL_PollEvent(&event);) switch (event.type): every
\* queued event is polled and dispatched, then SDL_PollEvent returns 0
PollEvents(p, events) ==
    LET poll == LoopOf(p).body[1]
    IN  [i \in DOMAIN events |-> [kind |-> events[i], line |-> poll.line, ok |-> TRUE]]
        \o << [kind |-> "SDL_PollEvent=0", line |-> poll.line, ok |-> TRUE] >>

\* case SDL_QUIT: running = false; no other case assigns running
RunningAfter(events) == \A i \in DOMAIN events : events[i] # "SDL_QUIT"

\* mutant: the loop has no if (!running) break; the iteration is finished
\* and while (running) ends the loop
IterationTail_nobreak(p, run) ==
    IF run
    THEN Executed(SubSeq(LoopOf(p).body, 2, 4))
    ELSE Executed(SubSeq(LoopOf(p).body, 3, 4)) \o Executed(LoopOf(p).cleanup)

\* the rest of the iteration after the events: if (!running) break; leads to
\* the statements after the loop, otherwise the frame is drawn and swapped
IterationTail(p, run) ==
    IF run
    THEN Executed(SubSeq(LoopOf(p).body, 2, 4))
    ELSE Executed(SubSeq(LoopOf(p).body, 2, 2)) \o Executed(LoopOf(p).cleanup)

\* One iteration of the render loop as every program has it: poll the
\* events; on SDL_QUIT leave the loop, delete the context, destroy the
\* window and return; otherwise draw and swap the buffers.
RenderLoop ==
    /\ pc = "loop"
    /\ \E events \in LoopBursts :
          \E run \in {RunningAfter(events)} :
             /\ run => frames < MaxFrames
             /\ history' = history
                    \o << [kind |-> "events_queued", line |-> LoopOf(prog).body[1].line,
                           ok |-> TRUE, n |-> Len(events)] >>
                    \o PollEvents(prog, events) \o IterationTail(prog, run)
             /\ IF run
                THEN /\ frames' = frames + 1
                     /\ UNCHANGED <<pc, window, gl_context, exit_status>>
                ELSE /\ gl_context' = FALSE
                     /\ window' = FALSE
                     /\ exit_status' = "EXIT_SUCCESS"
                     /\ pc' = "exited"
                     /\ UNCHANGED frames
    /\ UNCHANGED <<prog, step, sdl_error, thrown, stderr_out, supplied>>
    /\ UNCHANGED <<p14Vars, sponzaVars>>
    /\ UNCHANGED otherVars

----------------------------------------------------------------------------
(* practice14: geometry.  Lengths are in half units (the camera starts at   *)
(* y = 1.5), angles in quarter turns, so that sines, cosines, products and  *)
(* comparisons are exact in the integers.                                   *)

num == 3            \* half the side of the candidate grid (32 in the program)
MaxMeshes == 3      \* most meshes (LOD bands) the loaded model has
MaxFrames14 == 2    \* frames of practice14 explored

Scale == 2          \* half units per unit
lod_distance == 5   \* int lod = distance / 5
DtSet == {3, 16}    \* frame durations, in ticks of 1/6 s
Sizes == {<<800, 600>>, <<300, 600>>}

Vec3(x, y, z) == [x |-> x, y |-> y, z |-> z]

\* input_model.meshes[0].min and .max
mesh_min == Vec3(-1, 0, -1)
mesh_max == Vec3(1, 2, 1)

Cos(r) == CASE r % 4 = 0 -> 1 [] r % 4 = 1 -> 0 [] r % 4 = 2 -> -1 [] OTHER -> 0
Sin(r) == CASE r % 4 = 0 -> 0 [] r % 4 = 1 -> 1 [] r % 4 = 2 -> 0 [] OTHER -> -1

\* 3.f * dt as a length, in half units
Move(dt) == dt
\* 3.f * dt as an angle, in quarter turns (3 ticks are 1.5 rad)
Turn(dt) == dt \div 3

\* the candidate offsets in the order of the loops over i and j
GridSide == 2 * num
GridSeq ==
    [k \in 1..(GridSide * GridSide) |->
        Vec3(Scale * (((k - 1) \div GridSide) - num), 0,
             Scale * (((k - 1) % GridSide) - num))]

\* view = translate(rotate(mat4(1), camera_rotation, {0,1,0}), -camera_position)
\* applied to the point p
ViewSpace(p, cam, rot) ==
    LET dx == p.x - cam.x
        dy == p.y - cam.y
        dz == p.z - cam.z
    IN  Vec3(dx * Cos(rot) + dz * Sin(rot), dy, dz * Cos(rot) - dx * Sin(rot))

\* frustum{projection * view}: perspective(pi/2, width/height, 0.1, 100)
Frustum(cam, rot, w, h) == [cam |-> cam, rot |-> rot, w |-> w, h |-> h]

\* aabb(min + offset, max + offset): its eight corners
Aabb(offset) ==
    {Vec3(offset.x + cx, offset.y + cy, offset.z + cz) :
        cx \in {mesh_min.x, mesh_max.x},
        cy \in {mesh_min.y, mesh_max.y},
        cz \in {mesh_min.z, mesh_max.z}}

\* the six clip planes on a view-space point: left, right, bottom, top,
\* near (0.1 units), far (100 units); a value >= 0 is the inner side
PlaneValue(v, f, pl) ==
    CASE pl = 1 -> (0 - v.z) * f.w + v.x * f.h
      [] pl = 2 -> (0 - v.z) * f.w - v.x * f.h
      [] pl = 3 -> (0 - v.z) + v.y
      [] pl = 4 -> (0 - v.z) - v.y
      [] pl = 5 -> 5 * (0 - v.z) - 1
      [] OTHER -> 100 * Scale + v.z

\* intersect(frustum, aabb): false when all corners are outside one plane
intersect(f, box) ==
    LET corners == {ViewSpace(c, f.cam, f.rot) : c \in box}
    IN  \A pl \in 1..6 : \E v \in corners : PlaneValue(v, f, pl) >= 0

\* glm::distance squared, in half units squared
DistanceSq(a, b) ==
    (a.x - b.x) * (a.x - b.x) + (a.y - b.y) * (a.y - b.y) + (a.z - b.z) * (a.z - b.z)

\* int lod = distance / 5: the largest k with 5 k <= distance
RECURSIVE LodFrom(_, _)
LodFrom(dsq, k) ==
    IF (lod_distance * Scale * (k + 1)) * (lod_distance * Scale * (k + 1)) > dsq
    THEN k
    ELSE LodFrom(dsq, k + 1)

\* mutant: an index past the last band wraps around
ClampLod_wrap(lod, size) == lod % size

\* mutant: the index is used as computed
ClampLod_none(lod, size) == lod

\* if (lod >= lod_offsets.size()) lod = lod_offsets.size() - 1;
ClampLod(lod, size) == IF lod >= size THEN size - 1 ELSE lod

LodOf(cam, offset, size) == ClampLod(LodFrom(DistanceSq(cam, offset), 0), size)

\* mutant: no culling, every candidate offset is kept
FrustumOffsets_nocull(f) == GridSeq

\* the loop over i and j: the offsets whose box meets the frustum
FrustumOffsets(f) ==
    SelectSeq(GridSeq, LAMBDA o : intersect(f, Aabb(o)))

\* mutant: each offset is pushed twice
RECURSIVE BucketLoop_twice(_, _, _, _)
BucketLoop_twice(offs, k, cam, buckets) ==
    IF k > Len(offs) THEN buckets
    ELSE LET lod == LodOf(cam, offs[k], num_meshes)
         IN  BucketLoop_twice(offs, k + 1, cam,
                 [buckets EXCEPT ![lod + 1] = Append(Append(@, offs[k]), offs[k])])

\* the loop over frustum_offsets pushing each offset into lod_offsets[lod];
\* lod_offsets.size() is vbos.size(), num_meshes, all through the loop
RECURSIVE BucketLoop(_, _, _, _)
BucketLoop(offs, k, cam, buckets) ==
    IF k > Len(offs) THEN buckets
    ELSE LET lod == LodOf(cam, offs[k], num_meshes)
         IN  BucketLoop(offs, k + 1, cam,
                        [buckets EXCEPT ![lod + 1] = Append(@, offs[k])])

\* mutant: lod_offsets lives outside the loop and is never cleared
lod_offsets_kept == lod_offsets

\* auto lod_offsets = std::vector<std::vector<glm::vec3>>{vbos.size()};
lod_offsets_new == [l \in 1..num_meshes |-> <<>>]

----------------------------------------------------------------------------
(* practice14: timing queries *)

\* mutant: the first query of the vector is handed out whatever its flag
firstAvailableQuery_first(qs) ==
    IF qs # <<>>
    THEN [index |-> 1, queries |-> [qs EXCEPT ![1].available = FALSE]]
    ELSE [index |-> 1, queries |-> <<[id |-> 1, available |-> FALSE]>>]

\* mutant: every call generates a query
firstAvailableQuery_new(qs) ==
    [index |-> Len(qs) + 1,
     queries |-> Append(qs, [id |-> Len(qs) + 1, available |-> FALSE])]

\* firstAvailableQuery: the index of the query handed out and the vector
\* after the call
firstAvailableQuery(qs) ==
    LET avail == {i \in 1..Len(qs) : qs[i].available}
    IN  IF avail # {}
        THEN [index |-> SetMin(avail),
              queries |-> [qs EXCEPT ![SetMin(avail)].available = FALSE]]
        ELSE [index |-> Len(qs) + 1,
              queries |-> Append(qs, [id |-> Len(qs) + 1, available |-> FALSE])]

\* mutant: the result line is printed but query.available is left false
RECURSIVE logQueriesLoop_noflag(_, _, _, _, _)
logQueriesLoop_noflag(qs, k, result, g, lines) ==
    IF k > Len(qs) THEN [queries |-> qs, lines |-> lines]
    ELSE LET r == IF g[qs[k].id] = "ready" THEN TRUE
                  ELSE IF g[qs[k].id] = "ended" THEN FALSE
                  ELSE result
         IN  logQueriesLoop_noflag(qs, k + 1, r, g,
                                   IF r THEN Append(lines, qs[k].id) ELSE lines)

\* the loop of logQueries from query k on; result is the GLint that
\* glGetQueryObjectiv(GL_QUERY_RESULT_AVAILABLE) writes, and leaves alone
\* when the id is not a query object with a finished or pending result;
\* lines are the ids of the result lines printed so far
RECURSIVE logQueriesLoop(_, _, _, _, _)
logQueriesLoop(qs, k, result, g, lines) ==
    IF k > Len(qs) THEN [queries |-> qs, lines |-> lines]
    ELSE LET r == IF g[qs[k].id] = "ready" THEN TRUE
                  ELSE IF g[qs[k].id] = "ended" THEN FALSE
                  ELSE result
         IN  logQueriesLoop(IF r THEN [qs EXCEPT ![k].available = TRUE] ELSE qs,
                            k + 1, r, g,
                            IF r THEN Append(lines, qs[k].id) ELSE lines)

\* logQueries: the vector after the call and the result lines printed
logQueries(qs, g) == logQueriesLoop(qs, 1, FALSE, g, <<>>)

----------------------------------------------------------------------------
(* practice14: the render loop *)

Keys14 == {"w", "s", "a", "d", "LEFT", "RIGHT", "DOWN", "UP", "SPACE"}

\* the events SDL_PollEvent can deliver when the keys pressed are keys
EventsOf(keys) ==
    {[type |-> "SDL_QUIT"], [type |-> "other"]}
    \cup {[type |-> "SDL_WINDOWEVENT_RESIZED", data1 |-> sz[1], data2 |-> sz[2]] : sz \in Sizes}
    \cup {[type |-> "SDL_KEYDOWN", sym |-> k] : k \in keys}
    \cup {[type |-> "SDL_KEYUP", sym |-> k] : k \in keys}

Events14 == EventsOf(Keys14)

\* the most queries the model lets glGenQueries hand out
MaxQueries == 4

\* float time stops growing when dt falls below half its last place; the
\* model stops it at MaxTime
MaxTime == 40

\* the run the frames of practice14 are explored for: every key in use,
\* MaxFrames14 frames, query results any number of frames late
PlaySession ==
    [keys |-> Keys14, sizes |-> Sizes, dts |-> DtSet, frames |-> MaxFrames14,
     unbounded |-> FALSE, latency |-> MaxFrames14, bursts |-> {}]

\* the events SDL_PollEvent can deliver in the run ses
SessionEvents(ses) ==
    {e \in EventsOf(ses.keys) :
        e.type = "SDL_WINDOWEVENT_RESIZED" => <<e.data1, e.data2>> \in ses.sizes}

\* what SDL can have queued since the last iteration when the keys in down
\* are held: nothing, one event (a key is released only while it is held),
\* or SDL_QUIT followed by one more event
EventBursts(events, down) ==
    LET possible == {e \in events : e.type = "SDL_KEYUP" => e.sym \in down}
    IN  {<<>>} \cup {<<e>> : e \in possible}
        \cup {<<[type |-> "SDL_QUIT"], e>> :
                 e \in {x \in possible : x.type \in {"other", "SDL_KEYUP"}}}

\* the key of a frame: camera pose and window size
PoseKey == <<camera_position, camera_rotation, width, height>>

\* while (running) { auto &firstFreeQuery = firstAvailableQuery(queries);
P14_LoopTop ==
    /\ prog = "practice14"
    /\ pc = "loop"
    /\ running
    /\ session.unbounded \/ frames < session.frames
    /\ LET r == firstAvailableQuery(queries)
       IN  /\ Len(r.queries) <= MaxQueries
           /\ queries' = r.queries
           /\ firstFreeQuery' = r.index
           /\ gpu' = IF r.index > Len(queries)
                     THEN gpu @@ (r.index :> "idle") ELSE gpu
           /\ age' = IF r.index > Len(queries)
                     THEN age @@ (r.index :> 0) ELSE age
    /\ pc' = "poll"
    /\ UNCHANGED <<prog, step, window, gl_context, sdl_error, thrown,
                   stderr_out, exit_status, frames, history, supplied>>
    /\ UNCHANGED <<num_meshes, running, paused, time, button_down,
                   camera_position, camera_rotation, width, height,
                   frustum_offsets, lod_offsets, buffers, draws,
                   visible_items, seen, logged>>
    /\ UNCHANGED sponzaVars
    /\ UNCHANGED otherVars

\* mutant: SPACE sets the pause flag and never clears it
HandleEvent_hold(e, st) ==
    CASE e.type = "SDL_QUIT" -> [st EXCEPT !.running = FALSE]
      [] e.type = "SDL_WINDOWEVENT_RESIZED" ->
            [st EXCEPT !.width = e.data1, !.height = e.data2]
      [] e.type = "SDL_KEYDOWN" ->
            [st EXCEPT !.button_down = @ \cup {e.sym},
                       !.paused = IF e.sym = "SPACE" THEN TRUE ELSE @]
      [] e.type = "SDL_KEYUP" -> [st EXCEPT !.button_down = @ \ {e.sym}]
      [] OTHER -> st

\* one case of switch (event.type) on the locals the event loop writes
HandleEvent(e, st) ==
    CASE e.type = "SDL_QUIT" -> [st EXCEPT !.running = FALSE]
      [] e.type = "SDL_WINDOWEVENT_RESIZED" ->
            [st EXCEPT !.width = e.data1, !.height = e.data2]
      [] e.type = "SDL_KEYDOWN" ->
            [st EXCEPT !.button_down = @ \cup {e.sym},
                       !.paused = IF e.sym = "SPACE" THEN ~@ ELSE @]
      [] e.type = "SDL_KEYUP" -> [st EXCEPT !.button_down = @ \ {e.sym}]
      [] OTHER -> st

\* for (SDL_Event event; SDL_PollEvent(&event);) switch (event.type) ...
\* over the events waiting in the queue, from event k on
RECURSIVE EventLoop(_, _, _)
EventLoop(events, k, st) ==
    IF k > Len(events) THEN st
    ELSE EventLoop(events, k + 1, HandleEvent(events[k], st))

\* the event loop on the events that arrived since the last iteration, then
\* if (!running) break; and after the loop SDL_GL_DeleteContext(gl_context);
\* SDL_DestroyWindow(window); end of main
P14_PollEvents ==
    /\ prog = "practice14"
    /\ pc = "poll"
    /\ \E events \in EventBursts(SessionEvents(session), button_down)
                      \cup session.bursts :
        LET st == EventLoop(events, 1,
                            [running |-> running, width |-> width,
                             height |-> height, button_down |-> button_down,
                             paused |-> paused])
        IN  /\ polled' = events
            /\ running' = st.running
            /\ width' = st.width
            /\ height' = st.height
            /\ button_down' = st.button_down
            /\ paused' = st.paused
            /\ IF st.running
               THEN /\ pc' = "update"
                    /\ UNCHANGED <<window, gl_context, exit_status>>
               ELSE /\ gl_context' = FALSE
                    /\ window' = FALSE
                    /\ exit_status' = "EXIT_SUCCESS"
                    /\ pc' = "exited"
    /\ UNCHANGED <<prog, step, sdl_error, thrown, stderr_out, frames,
                   history, supplied>>
    /\ UNCHANGED <<num_meshes, time, camera_position, camera_rotation,
                   queries, firstFreeQuery, gpu, frustum_offsets, lod_offsets,
                   buffers, draws, visible_items, seen, logged, age>>
    /\ UNCHANGED sponzaVars
    /\ UNCHANGED <<shaderVars, p15Text, session, lateVars>>

\* (inverse(view) * vec4(0, 0, 0, 1)).xyz(): the inverse rotation applied
\* to v, then the translation by the camera position
InverseView(v, cam, rot) ==
    Vec3(v.x * Cos(rot) - v.z * Sin(rot) + cam.x, v.y + cam.y,
         v.x * Sin(rot) + v.z * Cos(rot) + cam.z)

\* mutant: a band without instances is skipped
DrawLoop_skipempty(lods) ==
    SelectSeq([lod \in 1..Len(lods) |->
                  [vao |-> lod, mesh |-> lod, instancecount |-> Len(lods[lod])]],
              LAMBDA d : d.instancecount > 0)

\* for (lod ...) { glBindVertexArray(vaos[lod]); glDrawElementsInstanced(
\* ..., mesh.indices..., lod_offsets[lod].size()); } with mesh = meshes[lod]
DrawLoop(lods) ==
    [lod \in 1..Len(lods) |->
        [vao |-> lod, mesh |-> lod, instancecount |-> Len(lods[lod])]]

\* mutant: a band without instances is not uploaded
UploadLoop_nonempty(lods, bufs) ==
    [b \in 1..Len(bufs) |->
        IF b <= Len(lods) /\ lods[b] # <<>> THEN lods[b] ELSE bufs[b]]

\* for (lod ...) glBufferData(GL_ARRAY_BUFFER, size, lod_offsets[lod].data(), ...)
\* on vbos[lod]
UploadLoop(lods, bufs) ==
    [b \in 1..Len(bufs) |-> IF b <= Len(lods) THEN lods[b] ELSE bufs[b]]

\* for (const auto &lod_offset : lod_offsets) sum += lod_offset.size();
RECURSIVE SumSizes(_, _)
SumSizes(lods, k) ==
    IF k > Len(lods) THEN 0 ELSE Len(lods[k]) + SumSizes(lods, k + 1)

\* lines 344-457: frame time, camera, glBeginQuery, culling, bucketing,
\* upload, draw calls, glEndQuery
P14_Frame ==
    /\ prog = "practice14"
    /\ pc = "update"
    /\ \E dt \in session.dts :
       LET down(k) == k \in button_down
           camera_move_forward ==
               (IF down("s") THEN Move(dt) ELSE 0) - (IF down("w") THEN Move(dt) ELSE 0)
           camera_move_sideways ==
               (IF down("d") THEN Move(dt) ELSE 0) - (IF down("a") THEN Move(dt) ELSE 0)
           y1 == camera_position.y
                 + (IF down("UP") THEN Move(dt) ELSE 0)
                 - (IF down("DOWN") THEN Move(dt) ELSE 0)
       IN  \E rot \in {camera_rotation
                         + (IF down("RIGHT") THEN Turn(dt) ELSE 0)
                         - (IF down("LEFT") THEN Turn(dt) ELSE 0)} :
           \E pos \in {Vec3(camera_position.x - camera_move_forward * Sin(rot)
                                                + camera_move_sideways * Cos(rot),
                              y1,
                              camera_position.z + camera_move_forward * Cos(rot)
                                                + camera_move_sideways * Sin(rot))} :
           \E cam \in {InverseView(Vec3(0, 0, 0), pos, rot)} :
           \E key \in {<<pos, rot, width, height>>} :
           \E offs \in {FrustumOffsets(Frustum(pos, rot, width, height))} :
           \E lods \in {BucketLoop(offs, 1, cam, lod_offsets_new)} :
           /\ time' = IF paused THEN time
                      ELSE IF time + dt > MaxTime THEN MaxTime ELSE time + dt
           /\ camera_rotation' = rot
           /\ camera_position' = pos
           /\ frustum_offsets' = offs
           /\ lod_offsets' = lods
           /\ buffers' = UploadLoop(lods, buffers)
           /\ draws' = DrawLoop(lods)
           /\ seen' = IF key \in DOMAIN seen THEN seen ELSE seen @@ (key :> lods)
    /\ gpu' = [gpu EXCEPT ![queries[firstFreeQuery].id] = "ended"]
    /\ age' = [age EXCEPT ![queries[firstFreeQuery].id] = 0]
    /\ pc' = "present"
    /\ UNCHANGED <<prog, step, window, gl_context, sdl_error, thrown,
                   stderr_out, exit_status, frames, history, supplied>>
    /\ UNCHANGED <<num_meshes, running, paused, button_down, width, height,
                   queries, firstFreeQuery, visible_items, logged>>
    /\ UNCHANGED sponzaVars
    /\ UNCHANGED otherVars

\* SDL_GL_SwapWindow(window); logQueries(queries); the sum of the bucket
\* sizes printed as "visible items"
P14_Present ==
    /\ prog = "practice14"
    /\ pc = "present"
    /\ \A id \in DOMAIN gpu : gpu[id] = "ended" => age[id] < session.latency
    /\ queries' = logQueries(queries, gpu).queries
    /\ logged' = logQueries(queries, gpu).lines
    /\ age' = [id \in DOMAIN age |-> IF gpu[id] = "ended" THEN age[id] + 1 ELSE age[id]]
    /\ visible_items' = SumSizes(lod_offsets, 1)
    /\ frames' = IF session.unbounded /\ frames > 0 THEN frames ELSE frames + 1
    /\ pc' = "loop"
    /\ UNCHANGED <<prog, step, window, gl_context, sdl_error, thrown,
                   stderr_out, exit_status, history, supplied>>
    /\ UNCHANGED <<num_meshes, running, paused, time, button_down,
                   camera_position, camera_rotation, width, height,
                   firstFreeQuery, gpu, frustum_offsets, lod_offsets,
                   buffers, draws, seen>>
    /\ UNCHANGED sponzaVars
    /\ UNCHANGED otherVars

\* the GL implementation finishes the measurement of an ended query; the
\* program reads the state of a query only in logQueries, so the step is
\* taken between glEndQuery and that call
P14_QueryResultReady ==
    /\ prog = "practice14"
    /\ pc = "present"
    /\ \E id \in DOMAIN gpu :
        /\ gpu[id] = "ended"
        /\ gpu' = [gpu EXCEPT ![id] = "ready"]
    /\ UNCHANGED startupVars
    /\ UNCHANGED <<num_meshes, running, paused, time, button_down,
                   camera_position, camera_rotation, width, height, queries,
                   firstFreeQuery, frustum_offsets, lod_offsets,
                   buffers, draws, visible_items, seen, logged, age>>
    /\ UNCHANGED sponzaVars
    /\ UNCHANGED otherVars

\* the 4x4 matrices the model tells apart: the zero matrix a uniform holds
\* before its first upload, and shadow_projection_sun by the sun's phase
ZeroMatrix == [zero |-> TRUE, phase |-> 0]

\* the GL state and the shadow map of the Sponza program at the first
\* while (running): glUseProgram(rectangle_program) was the last
\* glUseProgram, glBindFramebuffer(GL_FRAMEBUFFER, 0) the last binding
SponzaLocals ==
    /\ gl_program = "rectangle_program"
    /\ gl_draw_framebuffer = "0"
    /\ gl_uniform = [l \in {<<"program", "shadow_projection_sun">>,
                             <<"shadow_program", "shadow_projection_sun">>}
                        |-> ZeroMatrix]
    /\ shadow_map_texture = [written |-> FALSE, frame |-> 0, matrix |-> ZeroMatrix]
    /\ frame_draws = <<>>

\* no fragment is being shaded: the values are those of a fragment in full light
ShaderIdle ==
    /\ data = [r |-> 0, g |-> 0]
    /\ shadow_pos_z = 0
    /\ shadow = [n |-> 1, d |-> 1]

\* the locals of practice15 at the first while (running), lines 236-243
P15Locals ==
    /\ text = <<"H", "e", "l", "l", "o", "o">>
    /\ text_changed = TRUE
    /\ vbo_size = 0
    /\ transform = [identity |-> TRUE]
    /\ draw_count = 0
    /\ polled = <<>>
    /\ since_change = 0

\* the locals of the Bezier program at the first while (running),
\* part_000 lines 221-250
BezierLocals ==
    /\ vertices = <<>>
    /\ color = 0
    /\ quality = 4
    /\ need_redraw = FALSE
    /\ vertices_bez = <<>>
    /\ vbo = <<>>
    /\ vbo_bez = <<>>

\* no scene is looked at: the OBJ file had no shape
SceneLocals ==
    /\ shapes = <<>>
    /\ scene_vertices = 0
    /\ faces = <<>>
    /\ emitted = <<>>

\* the locals of homework1 (lines 361-368) and of the moving-disc program
\* (part_003 lines 664-670) at the first while (running); speed is 0.0001f
\* with dSpeed 0.0001f, and 0.3 with dSpeed 0.1f
HwLocals(p) ==
    /\ key_down = {}
    /\ speed = IF p = "disc" THEN 3 ELSE 1
    /\ shader_variation = 4

\* the programs of the later sections have not run
LateLocals ==
    /\ unwrapped = <<>>
    /\ BezierLocals
    /\ SceneLocals
    /\ HwLocals("homework1")
    /\ metaballs = <<>>

OtherLocals == ShaderIdle /\ P15Locals /\ LateLocals

\* history of a start-up in which every statement succeeded
StartedHistory(p) ==
    [i \in 1..Len(StartupOf(p)) |->
        [kind |-> StartupOf(p)[i].kind, line |-> StartupOf(p)[i].line, ok |-> TRUE]]

\* main() of program p at the first while (running)
Started(p) ==
    /\ prog = p
    /\ pc = "loop"
    /\ step = Len(StartupOf(p)) + 1
    /\ window = TRUE
    /\ gl_context = TRUE
    /\ sdl_error = <<>>
    /\ thrown = NoException
    /\ stderr_out = <<>>
    /\ exit_status = "running"
    /\ frames = 0
    /\ history = StartedHistory(p)
    /\ supplied = <<>>

\* the locals of practice14 at the first while (running), lines 298-310
P14Locals(meshes, sizes) ==
    /\ num_meshes \in meshes
    /\ running = TRUE
    /\ paused = FALSE
    /\ time = 0
    /\ button_down = {}
    /\ camera_position = Vec3(0, 3, 6)
    /\ camera_rotation = 0
    /\ \E sz \in sizes : width = sz[1] /\ height = sz[2]
    /\ queries = <<>>
    /\ firstFreeQuery = 0
    /\ gpu = <<>>
    /\ frustum_offsets = <<>>
    /\ lod_offsets = [l \in 1..num_meshes |-> <<>>]
    /\ buffers = [l \in 1..num_meshes |-> <<>>]
    /\ draws = <<>>
    /\ visible_items = 0
    /\ seen = <<>>
    /\ logged = <<>>
    /\ age = <<>>

InitP14 ==
    /\ Started("practice14")
    /\ P14Locals(1..MaxMeshes, {<<800, 600>>})
    /\ SponzaLocals
    /\ OtherLocals
    /\ session = PlaySession

NextP14 ==
    \/ P14_LoopTop
    \/ P14_PollEvents
    \/ P14_Frame
    \/ P14_Present
    \/ P14_QueryResultReady

SpecP14 == InitP14 /\ [][NextP14]_vars

----------------------------------------------------------------------------
(* practice14: the pool of timer queries.  The same loop, watched for more *)
(* frames with the camera at rest, for each bound on how many frames late  *)
(* the GL implementation delivers a result.                                 *)

MaxFramesQ == 4
MaxLatency == 2

QuerySessions ==
    {[keys |-> {}, sizes |-> Sizes, dts |-> DtSet, frames |-> MaxFramesQ,
      unbounded |-> FALSE, latency |-> L, bursts |-> {}] : L \in 0..MaxLatency}

InitQueries ==
    /\ Started("practice14")
    /\ P14Locals({1}, {<<800, 600>>})
    /\ SponzaLocals
    /\ OtherLocals
    /\ session \in QuerySessions

NextQueries ==
    \/ P14_LoopTop
    \/ P14_PollEvents
    \/ P14_Frame
    \/ P14_Present
    \/ P14_QueryResultReady

SpecQueries == InitQueries /\ [][NextQueries]_vars

\* the loop running for ever: each statement of the loop is executed when
\* control reaches it, and the GL implementation finishes every ended query
LiveSessions ==
    {[keys |-> {}, sizes |-> {}, dts |-> {16}, frames |-> MaxFramesQ,
      unbounded |-> TRUE, latency |-> L, bursts |-> {}] : L \in 0..MaxLatency}

InitQueriesLive ==
    /\ Started("practice14")
    /\ P14Locals({1}, {<<800, 600>>})
    /\ SponzaLocals
    /\ OtherLocals
    /\ session \in LiveSessions

SpecQueriesLive ==
    /\ InitQueriesLive
    /\ [][NextQueries]_vars
    /\ WF_vars(P14_LoopTop)
    /\ WF_vars(P14_PollEvents)
    /\ WF_vars(P14_Frame)
    /\ WF_vars(P14_Present)
    /\ WF_vars(P14_QueryResultReady)

\* the steps of the loop that matter to the pool
CallsFirstAvailableQuery == pc = "loop" /\ pc' = "poll"
IssuesBeginQuery == pc = "update" /\ pc' = "present"
CallsLogQueries == pc = "present" /\ pc' = "loop"

\* C15: firstAvailableQuery returns a new query or one whose flag was true,
\* and leaves the flag of the returned query false; glBeginQuery is issued on
\* a query whose flag is false, and a flag goes from false to true only in
\* logQueries, for a query whose result the GL reports available.  So a query
\* that was begun is not handed out again before logQueries saw its result.
C15_HandedOutOnlyWhenAvailable ==
    [][ /\ CallsFirstAvailableQuery =>
              /\ firstFreeQuery' \in DOMAIN queries =>
                    /\ queries[firstFreeQuery'].available
                    /\ gpu[queries[firstFreeQuery'].id] # "ended"
              /\ ~queries'[firstFreeQuery'].available
        /\ IssuesBeginQuery => ~queries[firstFreeQuery].available
        /\ \A i \in DOMAIN queries :
              (~queries[i].available /\ queries'[i].available) =>
                  /\ CallsLogQueries
                  /\ gpu[queries[i].id] = "ready"
      ]_vars

\* the first query is handed out a second time while a second query exists
C15_Witness ==
    /\ prog = "practice14" /\ pc = "poll" /\ frames = 2
    /\ Len(queries) = 2 /\ firstFreeQuery = 1
    /\ queries[2].available

\* C16: the pool of queries never shrinks; it grows by exactly one query, in
\* firstAvailableQuery, and only when every query in it is unavailable; and
\* when every result is available at most L frames after the frame that
\* issued the query, the pool, whose size logQueries prints as "delay", never
\* holds more than L + 1 queries.
C16_PoolBoundedByLatency ==
    [][ /\ Len(queries') >= Len(queries)
        /\ Len(queries') > Len(queries) =>
              /\ Len(queries') = Len(queries) + 1
              /\ CallsFirstAvailableQuery
              /\ \A i \in DOMAIN queries : ~queries[i].available
        /\ Len(queries') <= session.latency + 1
      ]_vars

\* C17: while the loop keeps running and the GL implementation finishes
\* every ended query, a query marked unavailable is eventually marked
\* available again (by logQueries, the only place that sets the flag).
C17_UnavailableEventuallyAvailable ==
    \A i \in 1..MaxQueries :
        (i \in DOMAIN queries /\ ~queries[i].available)
            ~> ((i \in DOMAIN queries /\ queries[i].available) \/ ~running)

\* after several frames of the endless loop two queries are back in the pool
C17_Witness ==
    /\ prog = "practice14" /\ session.unbounded /\ running
    /\ pc = "loop" /\ frames > 0 /\ time = MaxTime
    /\ Len(queries) = 3
    /\ \A i \in DOMAIN queries : queries[i].available

\* the query with this id in the vector
QueryOf(id) == CHOOSE i \in DOMAIN queries : queries[i].id = id

\* C18: each measured frame time is reported once: a call of logQueries
\* prints a result line only for a query whose flag is still false, that is,
\* one handed out and measured since its last line; a query whose result was
\* printed and that was not handed out again gets no further line.
C18_ReportedOnce ==
    [][ CallsLogQueries =>
            \A j \in DOMAIN logged' : ~queries[QueryOf(logged'[j])].available
      ]_vars

\* results two frames late: the pool has reached three queries and the
\* fourth frame reuses one
C16_Witness ==
    /\ prog = "practice14" /\ session.latency = 2
    /\ Len(queries) = 3 /\ frames = 3 /\ pc = "poll"
    /\ firstFreeQuery = 1

----------------------------------------------------------------------------
(* Properties of the frames of practice14 (SpecP14) *)

\* the 2 num x 2 num candidate offsets
Grid == {GridSeq[k] : k \in DOMAIN GridSeq}

\* the draw calls of a frame have been issued and its locals still hold
FrameDone ==
    /\ prog = "practice14"
    /\ \/ pc = "present"
       \/ pc = "loop" /\ frames > 0

\* the box of the mesh moved by o meets the frustum of the last frame
PassedTest(o) ==
    intersect(Frustum(camera_position, camera_rotation, width, height), Aabb(o))

\* the places <<band, index>> of the buckets
Places == UNION {{<<l, i>> : i \in DOMAIN lod_offsets[l]} : l \in DOMAIN lod_offsets}

\* the offsets found in the buckets, and those that passed the test
Bucketed == {lod_offsets[p[1]][p[2]] : p \in Places}
Passed == {o \in Grid : PassedTest(o)}

\* the offsets the instances of the draw calls read from the bound buffers
DrawnOffsets ==
    UNION {{buffers[draws[d].vao][i] :
               i \in {j \in DOMAIN buffers[draws[d].vao] : j <= draws[d].instancecount}} :
           d \in DOMAIN draws}

\* C1: in each frame a candidate offset is in a bucket exactly when its
\* translated bounding box passed the frustum test of that frame, and no
\* offset that failed the test is among the instances of a draw call.
C1_BucketedIffVisible ==
    FrameDone =>
        /\ Bucketed = Passed
        /\ DrawnOffsets \subseteq Passed

C1_Witness ==
    /\ pc = "present"
    /\ \E o \in Grid : ~PassedTest(o) /\ o \notin Bucketed
    /\ \E o \in Grid : PassedTest(o) /\ o \in DrawnOffsets

\* C2: in each frame every offset that passed the test occurs exactly once
\* over all buckets (the buckets hold the passing offsets and no offset at
\* two places), and the number printed as "visible items" is the number of
\* offsets that passed, which is at most the size of the grid.
C2_ExactlyOneBucket ==
    /\ FrameDone =>
           /\ Passed \subseteq Bucketed
           /\ \A p1, p2 \in Places :
                lod_offsets[p1[1]][p1[2]] = lod_offsets[p2[1]][p2[2]] => p1 = p2
    /\ (prog = "practice14" /\ pc = "loop" /\ frames > 0) =>
           /\ visible_items = Cardinality(Passed)
           /\ visible_items <= GridSide * GridSide

C2_Witness ==
    /\ prog = "practice14"
    /\ pc = "loop"
    /\ frames > 0
    /\ visible_items > 1
    /\ visible_items < GridSide * GridSide
    /\ Cardinality({l \in DOMAIN lod_offsets : lod_offsets[l] # <<>>}) > 1

\* k is min(floor(d / 5), N - 1) for the distance d with d * d = dsq
BandIs(k, dsq, N) ==
    LET edge(j) == (lod_distance * Scale * j) * (lod_distance * Scale * j)
    IN  /\ k \in 0..(N - 1)
        /\ edge(k) <= dsq
        /\ k < N - 1 => dsq < edge(k + 1)

\* C14: the band index of a visible offset is min(floor(d / 5), N - 1) for
\* its distance d from the camera; it lies in 0..N-1, so every visible offset
\* is pushed into one of the N buckets of lod_offsets and none is lost to an
\* index outside it.
C14_BandIndexClamped ==
    FrameDone =>
        /\ DOMAIN lod_offsets = 1..num_meshes
        /\ \A p \in Places :
              BandIs(p[1] - 1, DistanceSq(camera_position, lod_offsets[p[1]][p[2]]), num_meshes)
        /\ \A i \in DOMAIN frustum_offsets :
              \E p \in Places : lod_offsets[p[1]][p[2]] = frustum_offsets[i]

\* an offset beyond the last band edge sits in the last band, one within the
\* first 5 units in band 0
C14_Witness ==
    /\ pc = "present" /\ num_meshes = 2
    /\ \E i \in DOMAIN lod_offsets[2] :
          DistanceSq(camera_position, lod_offsets[2][i])
              >= (lod_distance * Scale * 2) * (lod_distance * Scale * 2)
    /\ lod_offsets[1] # <<>>

\* C3: each frame issues one instanced draw call per band, in band order,
\* the call of band k with vertex array k and mesh k; a band with an empty
\* bucket has its call too, with instance count 0.
C3_OneDrawPerBand ==
    FrameDone =>
        /\ Len(draws) = num_meshes
        /\ \A k \in 1..num_meshes :
             /\ draws[k].vao = k
             /\ draws[k].mesh = k
             /\ lod_offsets[k] = <<>> => draws[k].instancecount = 0

C3_Witness ==
    /\ pc = "present"
    /\ num_meshes = 3
    /\ lod_offsets[1] # <<>>
    /\ lod_offsets[3] = <<>>
    /\ Len(draws) = 3
    /\ draws[3].instancecount = 0

\* C4: for two offsets bucketed in the same frame, the one in the higher
\* band is farther from the camera position: an offset that is not nearer
\* than another one is never in a lower band.
C4_BandMonotoneInDistance ==
    FrameDone =>
        \A p1, p2 \in Places :
            p1[1] > p2[1] =>
                DistanceSq(camera_position, lod_offsets[p1[1]][p1[2]])
                  > DistanceSq(camera_position, lod_offsets[p2[1]][p2[2]])

C4_Witness ==
    /\ pc = "present"
    /\ num_meshes = 2
    /\ lod_offsets[1] # <<>>
    /\ \E i \in DOMAIN lod_offsets[2] :
         LodFrom(DistanceSq(camera_position, lod_offsets[2][i]), 0) >= 2

\* the buckets as a function of camera pose, window size and number of bands
BucketsOf(pos, rot, w, h, n) ==
    BucketLoop(FrustumOffsets(Frustum(pos, rot, w, h)), 1,
               InverseView(Vec3(0, 0, 0), pos, rot), [l \in 1..n |-> <<>>])

\* C10: the buckets of a frame are determined by its camera position,
\* camera rotation and window size: they equal the buckets of the first
\* earlier frame of the run with the same values, element for element, and
\* the value of the bucketing function on them, whatever the pause flag,
\* the query pool and the earlier frames were.
C10_BucketsFunctionOfPose ==
    FrameDone =>
        /\ PoseKey \in DOMAIN seen
        /\ seen[PoseKey] = lod_offsets
        /\ lod_offsets = BucketsOf(camera_position, camera_rotation, width,
                                   height, num_meshes)

C10_Witness ==
    /\ pc = "present"
    /\ frames = 1
    /\ Cardinality(DOMAIN seen) = 1
    /\ paused
    /\ Len(queries) = 2
    /\ lod_offsets[1] # <<>>

\* C11: in every frame the instance count of the draw of band k is the
\* number of offsets in the instance buffer of band k, and that buffer holds
\* the bucket of band k of this frame: no draw covers offsets of an earlier
\* frame.
C11_CountMatchesUpload ==
    FrameDone =>
        \A k \in 1..num_meshes :
            /\ buffers[draws[k].vao] = lod_offsets[k]
            /\ draws[k].instancecount = Len(buffers[draws[k].vao])

C11_Witness ==
    /\ pc = "present"
    /\ frames = 1
    /\ num_meshes = 2
    /\ lod_offsets[1] = <<>>
    /\ buffers[1] = <<>>
    /\ lod_offsets[2] # <<>>
    /\ \E key \in DOMAIN seen : seen[key][1] # <<>>

----------------------------------------------------------------------------
(* Sponza: the frame.  The camera (camera_position, camera_pitch,           *)
(* camera_yaw, view, projection) is not represented: no draw call depends   *)
(* on it.  Time is in ticks of pi/2 seconds.                                *)

MaxFramesSponza == 3   \* frames of the Sponza program explored
SunPeriod == 8         \* cos(time * 0.5f), sin(time * 0.5f) repeat after 4 pi s
DtSponza == {1, 2}     \* frame durations, in ticks

\* SPACE and one of the keys that move the camera
KeysSponza == {"SPACE", "w"}

\* glGetUniformLocation(shadow_program, "shadow_projection_sun")
shadow_projection_sun_location == <<"shadow_program", "shadow_projection_sun">>

\* mutant: the location of the other program is fetched
shadow_projection_sun_location_other == <<"shadow_program", "shadow_projection_sun">>

\* glGetUniformLocation(program, "shadow_projection_sun")
shadow_projection_sun_location_ == <<"program", "shadow_projection_sun">>

\* glm::inverse of the light-space basis built from sun_direction, which
\* depends on time through cos(time * 0.5f) and sin(time * 0.5f)
shadow_projection_sun(t) == [zero |-> FALSE, phase |-> t % SunPeriod]

\* glUniformMatrix4fv(location, ...) acts on the current program: a location
\* of another program is not one of its uniforms and nothing is stored
glUniformMatrix4fv(unis, current, location, value) ==
    IF location[1] = current /\ location \in DOMAIN unis
    THEN [unis EXCEPT ![location] = value]
    ELSE unis

\* the value of uniform shadow_projection_sun a draw with program prg reads
UniformOf(unis, prg) ==
    IF <<prg, "shadow_projection_sun">> \in DOMAIN unis
    THEN unis[<<prg, "shadow_projection_sun">>]
    ELSE ZeroMatrix

\* glClear(GL_COLOR_BUFFER_BIT | GL_DEPTH_BUFFER_BIT) on the bound framebuffer
glClear(tex, fbo) ==
    IF fbo = "shadow_fbo"
    THEN [written |-> FALSE, frame |-> 0, matrix |-> ZeroMatrix]
    ELSE tex

\* what a draw leaves in the shadow map: shadow_fbo's colour attachment is
\* written by the bound program with its uniform, in frame number fr
Rendered(tex, fbo, prg, unis, fr) ==
    IF fbo = "shadow_fbo"
    THEN [written |-> TRUE, frame |-> fr, matrix |-> UniformOf(unis, prg)]
    ELSE tex

\* draw_scene(depth): the glDrawArrays calls over faces, as one entry with
\* the GL state they run in
draw_scene(depth, prg, fbo, unis, tex) ==
    [op |-> "draw_scene", depth |-> depth, program |-> prg,
     framebuffer |-> fbo, sun |-> UniformOf(unis, prg), shadow_map |-> tex]

\* glDrawElements of the bunny, glDrawArrays of the rectangle
draw_other(op, prg, fbo, unis, tex) ==
    [op |-> op, depth |-> FALSE, program |-> prg,
     framebuffer |-> fbo, sun |-> UniformOf(unis, prg), shadow_map |-> tex]

\* lines 871-898: the event loop, if (!running) break; and the end of main
Sz_PollEvents ==
    /\ prog = "sponza"
    /\ pc = "loop"
    /\ running
    /\ frames < MaxFramesSponza
    /\ \E events \in EventBursts(EventsOf(KeysSponza), button_down)
                      \cup session.bursts :
        LET st == EventLoop(events, 1,
                            [running |-> running, width |-> width,
                             height |-> height, button_down |-> button_down,
                             paused |-> paused])
        IN  /\ polled' = events
            /\ running' = st.running
            /\ width' = st.width
            /\ height' = st.height
            /\ button_down' = st.button_down
            /\ paused' = st.paused
            /\ IF st.running
               THEN /\ pc' = "update"
                    /\ UNCHANGED <<window, gl_context, exit_status>>
               ELSE /\ gl_context' = FALSE
                    /\ window' = FALSE
                    /\ exit_status' = "EXIT_SUCCESS"
                    /\ pc' = "exited"
    /\ UNCHANGED <<prog, step, sdl_error, thrown, stderr_out, frames,
                   history, supplied>>
    /\ UNCHANGED <<time, p14Frame, sponzaVars>>
    /\ UNCHANGED <<shaderVars, p15Text, session, lateVars>>

\* lines 900-905: dt and if (!paused) time += dt; (the camera, lines
\* 916-951, is not represented)
Sz_Update ==
    /\ prog = "sponza"
    /\ pc = "update"
    /\ \E dt \in DtSponza : time' = IF paused THEN time ELSE time + dt
    /\ frame_draws' = <<>>
    /\ pc' = "leftover"
    /\ UNCHANGED <<prog, step, window, gl_context, sdl_error, thrown,
                   stderr_out, exit_status, frames, history, supplied>>
    /\ UNCHANGED <<running, paused, button_down, width, height, p14Frame>>
    /\ UNCHANGED otherVars
    /\ UNCHANGED <<gl_program, gl_draw_framebuffer, gl_uniform,
                   shadow_map_texture>>

\* lines 1003-1022: glClear, glViewport, ..., glBindVertexArray(scene_vao);
\* draw_scene(true); with the program and framebuffer left bound
Sz_LeftoverPass ==
    /\ prog = "sponza"
    /\ pc = "leftover"
    /\ LET cleared == glClear(shadow_map_texture, gl_draw_framebuffer)
       IN  /\ frame_draws' =
                Append(frame_draws,
                       draw_scene(TRUE, gl_program, gl_draw_framebuffer,
                                  gl_uniform, cleared))
           /\ shadow_map_texture' =
                Rendered(cleared, gl_draw_framebuffer, gl_program, gl_uniform,
                         frames + 1)
    /\ pc' = "shadow"
    /\ UNCHANGED <<prog, step, window, gl_context, sdl_error, thrown,
                   stderr_out, exit_status, frames, history, supplied>>
    /\ UNCHANGED <<p14Vars, gl_program, gl_draw_framebuffer, gl_uniform>>
    /\ UNCHANGED otherVars

\* lines 1024-1067: glBindFramebuffer(GL_DRAW_FRAMEBUFFER, shadow_fbo);
\* glClear; shadow_projection_sun from time; glUseProgram(shadow_program);
\* glUniformMatrix4fv(shadow_projection_sun_location, ...); draw_scene(true)
Sz_ShadowPass ==
    /\ prog = "sponza"
    /\ pc = "shadow"
    /\ LET fbo == "shadow_fbo"
           cleared == glClear(shadow_map_texture, fbo)
           prg == "shadow_program"
           unis == glUniformMatrix4fv(gl_uniform, prg,
                                      shadow_projection_sun_location,
                                      shadow_projection_sun(time))
       IN  /\ gl_draw_framebuffer' = fbo
           /\ gl_program' = prg
           /\ gl_uniform' = unis
           /\ frame_draws' =
                Append(frame_draws, draw_scene(TRUE, prg, fbo, unis, cleared))
           /\ shadow_map_texture' = Rendered(cleared, fbo, prg, unis, frames + 1)
    /\ pc' = "main"
    /\ UNCHANGED <<prog, step, window, gl_context, sdl_error, thrown,
                   stderr_out, exit_status, frames, history, supplied>>
    /\ UNCHANGED p14Vars
    /\ UNCHANGED otherVars

\* lines 1069-1133: glBindFramebuffer(GL_DRAW_FRAMEBUFFER, 0); glClear; the
\* bunny with bunny_program; glUseProgram(program); the uniforms, among them
\* glUniformMatrix4fv(shadow_projection_sun_location_, ...) with the same
\* local shadow_projection_sun; draw_scene(false)
Sz_MainPass ==
    /\ prog = "sponza"
    /\ pc = "main"
    /\ LET fbo == "0"
           tex == glClear(shadow_map_texture, fbo)
           bunny == draw_other("glDrawElements", "bunny_program", fbo,
                               gl_uniform, tex)
           tex1 == Rendered(tex, fbo, "bunny_program", gl_uniform, frames + 1)
           prg == "program"
           unis == glUniformMatrix4fv(gl_uniform, prg,
                                      shadow_projection_sun_location_,
                                      shadow_projection_sun(time))
       IN  /\ gl_draw_framebuffer' = fbo
           /\ gl_program' = prg
           /\ gl_uniform' = unis
           /\ frame_draws' =
                Append(Append(frame_draws, bunny),
                       draw_scene(FALSE, prg, fbo, unis, tex1))
           /\ shadow_map_texture' = Rendered(tex1, fbo, prg, unis, frames + 1)
    /\ pc' = "present"
    /\ UNCHANGED <<prog, step, window, gl_context, sdl_error, thrown,
                   stderr_out, exit_status, frames, history, supplied>>
    /\ UNCHANGED p14Vars
    /\ UNCHANGED otherVars

\* lines 1135-1139: glUseProgram(rectangle_program); the rectangle showing
\* the shadow map; SDL_GL_SwapWindow(window)
Sz_Present ==
    /\ prog = "sponza"
    /\ pc = "present"
    /\ gl_program' = "rectangle_program"
    /\ frame_draws' =
         Append(frame_draws,
                draw_other("glDrawArrays", "rectangle_program",
                           gl_draw_framebuffer, gl_uniform, shadow_map_texture))
    /\ frames' = frames + 1
    /\ pc' = "loop"
    /\ UNCHANGED <<prog, step, window, gl_context, sdl_error, thrown,
                   stderr_out, exit_status, history, supplied>>
    /\ UNCHANGED <<p14Vars, gl_draw_framebuffer, gl_uniform, shadow_map_texture>>
    /\ UNCHANGED otherVars

InitSponza ==
    /\ Started("sponza")
    /\ P14Locals({1}, {<<800, 600>>})
    /\ SponzaLocals
    /\ OtherLocals
    /\ session = PlaySession

NextSponza ==
    \/ Sz_PollEvents
    \/ Sz_Update
    \/ Sz_LeftoverPass
    \/ Sz_ShadowPass
    \/ Sz_MainPass
    \/ Sz_Present

SpecSponza == InitSponza /\ [][NextSponza]_vars

----------------------------------------------------------------------------
(* Properties of the frames of the Sponza program (SpecSponza) *)

\* positions in frame_draws of the draw_scene calls
SceneDraws == {i \in DOMAIN frame_draws : frame_draws[i].op = "draw_scene"}

\* the scene draws into the shadow-map framebuffer, and those of the main
\* pass (draw_scene(false))
ShadowDraws == {i \in SceneDraws : frame_draws[i].framebuffer = "shadow_fbo"}
MainDraws == {i \in SceneDraws : ~frame_draws[i].depth}

\* every draw call of the frame has been issued
SponzaFrameDrawn ==
    /\ prog = "sponza"
    /\ \/ pc = "present"
       \/ pc = "loop" /\ frames > 0

\* C8: in every frame the scene is drawn exactly twice, once into the
\* shadow-map framebuffer and once by the main pass into the window
\* framebuffer.
C8_TwoScenePasses ==
    SponzaFrameDrawn =>
        /\ Cardinality(SceneDraws) = 2
        /\ Cardinality(ShadowDraws) = 1
        /\ Cardinality(MainDraws) = 1

\* C9: in every frame the scene draw into the shadow-map framebuffer comes
\* before the main-pass scene draw; the shadow map the main pass samples was
\* rendered in this frame, and the matrix the main pass reads from its
\* uniform is the matrix the shadow pass rendered with, which is the
\* shadow_projection_sun computed from this frame's time.
C9_ShadowPassFirstSameMatrix ==
    SponzaFrameDrawn =>
        /\ ShadowDraws # {}
        /\ MainDraws # {}
        /\ \A sh \in ShadowDraws : \A m \in MainDraws :
             /\ sh < m
             /\ frame_draws[m].sun = frame_draws[sh].sun
        /\ \A m \in MainDraws :
             /\ frame_draws[m].framebuffer = "0"
             /\ frame_draws[m].shadow_map.written
             /\ frame_draws[m].shadow_map.frame =
                    IF pc = "present" THEN frames + 1 ELSE frames
             /\ frame_draws[m].shadow_map.matrix = frame_draws[m].sun
             /\ frame_draws[m].sun = shadow_projection_sun(time)

C9_Witness ==
    /\ prog = "sponza"
    /\ pc = "present"
    /\ frames = 2
    /\ ~paused
    /\ time = 3
    /\ \E m \in MainDraws :
         /\ frame_draws[m].sun = shadow_projection_sun(3)
         /\ frame_draws[m].shadow_map.frame = 3

----------------------------------------------------------------------------
(* Sponza: shadow_factor of the fragment shader.  Depths are in hundredths  *)
(* (the bias 0.03 is 3), second moments and variances in ten-thousandths;  *)
(* a float is a fraction n/d with d > 0, NaN is 0/0 and +Inf is 1/0.       *)

MuSet == {0, 10, 47, 50, 100}
SigmaSet == {0, 1, 9, 100, 2500}
ZSet == {0, 3, 13, 49, 50, 53, 60, 100, 103}

Frac(n, d) == [n |-> n, d |-> d]
NaN == Frac(0, 0)
Inf == Frac(1, 0)
IsNumber(x) == x.d > 0

\* a > b of two floats; false when either is NaN
Greater(a, b) ==
    /\ a # NaN /\ b # NaN
    /\ IF a = Inf THEN b # Inf
       ELSE IF b = Inf THEN FALSE
       ELSE a.n * b.d > b.n * a.d

\* a - b and a / b of two finite floats, b # 0
Minus(a, b) == Frac(a.n * b.d - b.n * a.d, a.d * b.d)
Over(a, b) == Frac(a.n * b.d, a.d * b.n)

\* what a / b can give for a >= 0, b >= 0 in the same unit: GLSL 3.30 leaves
\* the result of a division by zero unspecified; hardware gives NaN for 0/0
\* (IEEE) or 0 (division as a * rcp(b) with a clamped reciprocal, 0 * x = 0),
\* and +Inf for a positive number over 0
Divide(a, b) ==
    IF b # 0 THEN {Frac(a, b)}
    ELSE IF a = 0 THEN {NaN, Frac(0, 1)}
    ELSE {Inf}

\* float delta = 0.125;
delta == Frac(1, 8)

\* return factor > delta ? (factor - delta) / (1 - delta) : 0.0;
Rescale(factor) ==
    IF Greater(factor, delta)
    THEN IF factor = Inf THEN Inf
         ELSE Over(Minus(factor, delta), Minus(Frac(1, 1), delta))
    ELSE Frac(0, 1)

\* float z = shadow_pos.z - 0.03;
bias == 3

\* mutant: the receiver depth is compared without the bias
shadow_factor_nobias(d, pos_z) ==
    LET mu == d.r
        sigma == d.g - mu * mu
        z == pos_z
    IN  { Rescale(factor) :
            factor \in IF z < mu THEN {Frac(1, 1)}
                       ELSE Divide(sigma, sigma + (z - mu) * (z - mu)) }

\* shadow_factor after the blur: the values it can return for the blurred
\* moments d and the depth pos_z
shadow_factor(d, pos_z) ==
    LET mu == d.r
        sigma == d.g - mu * mu
        z == pos_z - bias
    IN  { Rescale(factor) :
            factor \in IF z < mu THEN {Frac(1, 1)}
                       ELSE Divide(sigma, sigma + (z - mu) * (z - mu)) }

\* the fragment shader of the main pass evaluates shadow_factor once
Sh_Fragment ==
    /\ pc = "loop"
    /\ shadow' \in shadow_factor(data, shadow_pos_z)
    /\ pc' = "shaded"
    /\ UNCHANGED <<prog, step, window, gl_context, sdl_error, thrown,
                   stderr_out, exit_status, frames, history, supplied>>
    /\ UNCHANGED <<data, shadow_pos_z>>
    /\ UNCHANGED <<p14Vars, sponzaVars, p15Vars, session, lateVars>>

\* a fragment of the main pass: the blurred shadow map holds a mean and a
\* second moment that is at least the square of the mean
InitShadow ==
    /\ Started("sponza")
    /\ P14Locals({1}, {<<800, 600>>})
    /\ SponzaLocals
    /\ \E mu \in MuSet, sigma \in SigmaSet : data = [r |-> mu, g |-> mu * mu + sigma]
    /\ shadow_pos_z \in ZSet
    /\ shadow = Frac(1, 1)
    /\ P15Locals
    /\ LateLocals
    /\ session = PlaySession

NextShadow == Sh_Fragment

SpecShadow == InitShadow /\ [][NextShadow]_vars

\* C13: the value shadow_factor returns for a mean mu, a second moment
\* m2 >= mu * mu and a depth z is a number between 0 and 1 inclusive, and it
\* is exactly 1 whenever z - 0.03 < mu.
C13_ShadowFactorIsProbability ==
    pc = "shaded" =>
        /\ IsNumber(shadow)
        /\ 0 <= shadow.n /\ shadow.n <= shadow.d
        /\ shadow_pos_z - bias < data.r => shadow.n = shadow.d

\* a fragment behind the occluder got a value strictly between 0 and 1
C13_Witness ==
    /\ pc = "shaded"
    /\ shadow_pos_z - bias >= data.r
    /\ 0 < shadow.n /\ shadow.n < shadow.d


(* practice15: the text program.  Time is in seconds; a frame lasts one of  *)
(* DtSet15.  One action is one iteration of while (running).               *)

MaxFrames15 == 4    \* iterations of the loop explored
MaxText == 16       \* longest text the typed input may lead to
DtSet15 == {1, 4}

\* const float fadeTime = 3.f;
fadeTime == 3

\* const auto line_width = 13;
line_width == 13

\* the characters the font file has a glyph for; the last character of
\* NoGlyph stands for a byte of a UTF-8 sequence, which has none
Glyphs == {"H", "e", "l", "o", "a"}
NoGlyph == "\\303"

\* what() of the std::out_of_range that font.glyphs.at throws
AtWhat == {<<"map::at">>, <<"_Map_base::at">>}

Events15 ==
    { [type |-> "SDL_QUIT"],
      [type |-> "SDL_WINDOWEVENT_RESIZED", data1 |-> 300, data2 |-> 600],
      [type |-> "SDL_KEYDOWN", sym |-> "RETURN"],
      [type |-> "SDL_KEYDOWN", sym |-> "BACKSPACE"],
      [type |-> "SDL_KEYUP", sym |-> "BACKSPACE"],
      [type |-> "SDL_TEXTINPUT", text |-> <<"a">>],
      [type |-> "SDL_TEXTINPUT", text |-> <<"a", "a", "a", "a", "a", "a", "a">>],
      [type |-> "SDL_TEXTINPUT", text |-> <<NoGlyph>>] }

\* what SDL can have queued for one iteration: nothing, one event (a key is
\* released only while held), or one of a few pairs
Bursts15(down) ==
    LET backspace == [type |-> "SDL_KEYDOWN", sym |-> "BACKSPACE"]
        typed == [type |-> "SDL_TEXTINPUT", text |-> <<"a">>]
    IN  {<<>>}
        \cup {<<e>> : e \in {x \in Events15 : x.type = "SDL_KEYUP" => x.sym \in down}}
        \cup { <<backspace, backspace>>, <<typed, backspace>>, <<backspace, typed>>,
               <<[type |-> "SDL_QUIT"], typed>> }

\* one case of switch (event.type), lines 246-275
HandleEvent15(e, st) ==
    CASE e.type = "SDL_QUIT" -> [st EXCEPT !.running = FALSE]
      [] e.type = "SDL_WINDOWEVENT_RESIZED" ->
            [st EXCEPT !.width = e.data1, !.height = e.data2]
      [] e.type = "SDL_KEYDOWN" ->
            LET s1 == [st EXCEPT !.button_down = @ \cup {e.sym}]
                s2 == IF e.sym = "RETURN"
                      THEN [s1 EXCEPT !.text = Append(@, "\n"), !.text_changed = TRUE]
                      ELSE s1
            IN  IF e.sym = "BACKSPACE" /\ s2.text # <<>>
                THEN [s2 EXCEPT !.text = SubSeq(@, 1, Len(@) - 1), !.text_changed = TRUE]
                ELSE s2
      [] e.type = "SDL_TEXTINPUT" ->
            [st EXCEPT !.text = @ \o e.text, !.text_changed = TRUE]
      [] e.type = "SDL_KEYUP" -> [st EXCEPT !.button_down = @ \ {e.sym}]

\* for (SDL_Event event; SDL_PollEvent(&event);) switch (event.type)
RECURSIVE EventLoop15(_, _, _)
EventLoop15(events, k, st) ==
    IF k > Len(events) THEN st
    ELSE EventLoop15(events, k + 1, HandleEvent15(events[k], st))

\* text.insert(i, "\n")
InsertAt(t, i, c) == SubSeq(t, 1, i - 1) \o <<c>> \o SubSeq(t, i, Len(t))

\* mutant: the line break is inserted one character later
RECURSIVE WrapLoop_late(_, _, _)
WrapLoop_late(t, i, counter) ==
    IF i > Len(t) THEN t
    ELSE IF t[i] = "\n" THEN WrapLoop_late(t, i + 1, 0)
    ELSE IF counter + 1 = line_width + 1 THEN WrapLoop_late(InsertAt(t, i, "\n"), i + 1, 0)
    ELSE WrapLoop_late(t, i + 1, counter + 1)

\* the first loop of if (text_changed): a line break is inserted before the
\* character that would be the line_width-th of its line (i counts from 1)
RECURSIVE WrapLoop(_, _, _)
WrapLoop(t, i, counter) ==
    IF i > Len(t) THEN t
    ELSE IF t[i] = "\n" THEN WrapLoop(t, i + 1, 0)
    ELSE IF counter + 1 = line_width THEN WrapLoop(InsertAt(t, i, "\n"), i + 1, 0)
    ELSE WrapLoop(t, i + 1, counter + 1)

\* mutant: a character without a glyph is skipped
GlyphMissing_skip(t) == FALSE

\* font.glyphs.at(text[i]) throws for some character of the text
GlyphMissing(t) == \E i \in DOMAIN t : t[i] # "\n" /\ t[i] \notin Glyphs

\* mutant: the vertices are allocated for the text as it was before the
\* line breaks were inserted
VertexCount_prewrap(before, wrapped) == 6 * Len(before)

\* auto vertices = std::vector<vertex>{6 * text.size()}, after the line
\* breaks were inserted; glBufferData uploads vertices.size() of them
VertexCount(before, wrapped) == 6 * Len(wrapped)

\* mutant: the text is cleared as soon as fadeTime is reached
Faded_atlimit(t) == t >= fadeTime

\* if (time > fadeTime) text.clear();
Faded(t) == t > fadeTime

\* the events of the burst that change the text, given the text before them
RECURSIVE ChangesText(_, _, _)
ChangesText(events, k, t) ==
    IF k > Len(events) THEN FALSE
    ELSE LET e == events[k]
         IN  \/ e.type = "SDL_TEXTINPUT"
             \/ e.type = "SDL_KEYDOWN" /\ e.sym = "RETURN"
             \/ e.type = "SDL_KEYDOWN" /\ e.sym = "BACKSPACE" /\ t # <<>>
             \/ ChangesText(events, k + 1, t)

\* one iteration of while (running), lines 244-390
P15_Iteration ==
    /\ prog = "practice15"
    /\ pc = "loop"
    /\ running
    /\ frames < MaxFrames15
    /\ \E events \in Bursts15(button_down), dt \in DtSet15 :
       \E st \in {EventLoop15(events, 1,
                      [running |-> running, width |-> width, height |-> height,
                       button_down |-> button_down, text |-> text,
                       text_changed |-> text_changed])} :
       /\ Len(st.text) <= MaxText
       /\ polled' = events
       /\ running' = st.running
       /\ width' = st.width
       /\ height' = st.height
       /\ button_down' = st.button_down
       /\ IF ~st.running
          THEN \* if (!running) break; SDL_GL_DeleteContext; SDL_DestroyWindow
               /\ text' = st.text
               /\ text_changed' = st.text_changed
               /\ gl_context' = FALSE
               /\ window' = FALSE
               /\ exit_status' = "EXIT_SUCCESS"
               /\ pc' = "exited"
               /\ UNCHANGED <<time, vbo_size, transform, draw_count, since_change,
                              frames, thrown, stderr_out>>
          ELSE \E wrapped \in {IF st.text_changed THEN WrapLoop(st.text, 1, 0) ELSE st.text} :
               IF st.text_changed /\ GlyphMissing(wrapped)
               THEN \* font.glyphs.at throws out of the loop
                    /\ \E what \in AtWhat : TopLevelCatch(what)
                    /\ text' = wrapped
                    /\ text_changed' = TRUE
                    /\ time' = time + dt
                    /\ since_change' = since_change + dt
                    /\ UNCHANGED <<vbo_size, transform, draw_count, frames,
                                   window, gl_context>>
               ELSE \E t1 \in {IF st.text_changed THEN 0 ELSE time + dt} :
                    /\ time' = t1
                    /\ text_changed' = FALSE
                    /\ vbo_size' = IF st.text_changed
                                   THEN VertexCount(st.text, wrapped) ELSE vbo_size
                    /\ transform' = IF st.text_changed
                                    THEN [identity |-> FALSE, width |-> st.width,
                                          height |-> st.height, text |-> wrapped]
                                    ELSE transform
                    /\ text' = IF Faded(t1) THEN <<>> ELSE wrapped
                    /\ draw_count' = 6 * Len(text')
                    /\ since_change' = IF frames = 0 \/ ChangesText(events, 1, text)
                                       THEN 0 ELSE since_change + dt
                    /\ frames' = frames + 1
                    /\ UNCHANGED <<pc, window, gl_context, exit_status, thrown,
                                   stderr_out>>
    /\ UNCHANGED <<prog, step, sdl_error, history, supplied>>
    /\ UNCHANGED <<paused, p14Frame, sponzaVars, shaderVars, session, lateVars>>

InitP15 ==
    /\ Started("practice15")
    /\ P14Locals({1}, {<<800, 600>>})
    /\ SponzaLocals
    /\ OtherLocals
    /\ session = PlaySession

NextP15 == P15_Iteration

SpecP15 == InitP15 /\ [][NextP15]_vars

\* an iteration that reached glDrawArrays and SDL_GL_SwapWindow
FrameDrawn15 == prog = "practice15" /\ frames' = frames + 1

\* C19: at every draw call of practice15 the count, 6 times the length of
\* the text, is at most the number of vertices last uploaded to the vertex
\* buffer: it is that number, or it is 0 with the text cleared by the fade
\* timer.
C19_DrawWithinUpload ==
    [][ FrameDrawn15 =>
            /\ draw_count' = 6 * Len(text')
            /\ draw_count' <= vbo_size'
            /\ \/ draw_count' = vbo_size'
               \/ draw_count' = 0 /\ text' = <<>> /\ time' > fadeTime
      ]_vars

\* a text long enough to get a line break was uploaded (14 characters, 84
\* vertices) and has then faded: the draw call has count 0
C19_Witness ==
    /\ prog = "practice15" /\ pc = "loop" /\ frames = 3
    /\ vbo_size = 6 * (line_width + 1)
    /\ draw_count = 0 /\ text = <<>>

BackspaceDown == [type |-> "SDL_KEYDOWN", sym |-> "BACKSPACE"]

\* C20: in every frame the timer is the frame time summed since the last
\* frame that laid out a changed text; a frame whose events changed the text
\* (text input, RETURN, BACKSPACE on a text that is not empty) sets it to 0;
\* the text is emptied in the frame in which the sum exceeds fadeTime and is
\* left as it is by a frame without such an event before that; BACKSPACE on
\* the empty text leaves the text empty and the timer running.
C20_FadeTimer ==
    [][ FrameDrawn15 =>
            /\ time' = since_change'
            /\ ChangesText(polled', 1, text) => time' = 0
            /\ since_change' > fadeTime => text' = <<>>
            /\ (since_change' <= fadeTime /\ frames > 0
                    /\ ~ChangesText(polled', 1, text)) => text' = text
            /\ (text = <<>> /\ polled' \in {<<BackspaceDown>>, <<BackspaceDown, BackspaceDown>>}) =>
                  /\ text' = <<>>
                  /\ ~text_changed'
                  /\ frames > 0 => time' > time
      ]_vars

\* BACKSPACE was pressed on the text the fade timer had emptied
C20_Witness ==
    /\ prog = "practice15" /\ pc = "loop" /\ frames = 3
    /\ polled = <<BackspaceDown>>
    /\ text = <<>> /\ time > fadeTime + 1
    /\ vbo_size = 36

\* a character of t is neither one the font has a glyph for nor a line break
UnknownChar(t) == \E i \in DOMAIN t : t[i] \notin Glyphs \cup {"\n"}

\* the text after the events polled in this step
TextAfterEvents ==
    EventLoop15(polled', 1,
        [running |-> running, width |-> width, height |-> height,
         button_down |-> button_down, text |-> text,
         text_changed |-> text_changed]).text

\* C22: an iteration of practice15 that did not poll a quit event and whose
\* text holds, after the events, a character other than a line break that the
\* font has no glyph for ends in the top-level catch: what() of the exception
\* of glyphs.at and a line end are written to std::cerr, main returns
\* EXIT_FAILURE, and no draw call is issued; no frame is ever drawn with a
\* text that holds such a character.
C22_MissingGlyphExits ==
    [][ (prog = "practice15" /\ pc = "loop") =>
            /\ (running' /\ UnknownChar(TextAfterEvents)) =>
                    /\ pc' = "exited"
                    /\ exit_status' = "EXIT_FAILURE"
                    /\ thrown' \in AtWhat
                    /\ stderr_out' = stderr_out \o thrown' \o endl
                    /\ frames' = frames
                    /\ draw_count' = draw_count
                    /\ vbo_size' = vbo_size
                    /\ UnknownChar(text')
            /\ FrameDrawn15 => ~UnknownChar(text')
      ]_vars

\* two frames were drawn, then a character without a glyph was typed and the
\* program ended in the catch block
C22_Witness ==
    /\ prog = "practice15" /\ pc = "exited" /\ exit_status = "EXIT_FAILURE"
    /\ frames = 2 /\ draw_count = 36
    /\ text = <<"H", "e", "l", "l", "o", "o", NoGlyph>>
    /\ stderr_out = <<"map::at">> \o endl

----------------------------------------------------------------------------
(* practice15: the line-wrapping pass on its own, for texts of up to three *)
(* runs of characters separated by line breaks.  Any such text can be in   *)
(* `text` when the pass starts: one poll can deliver several text-input    *)
(* and RETURN events.                                                       *)

MaxRun == 26        \* longest run of characters between two line breaks

\* the texts the pass is run on: runs of k characters (taken from a cycle of
\* five, so that their order shows), with k around the multiples of
\* line_width - 1, separated by no, one or two line breaks
WrapInputs ==
    LET RunLens == {k \in 0..MaxRun : k % (line_width - 1) \in {0, 1, 2, 11}}
        GlyphCycle == <<"H", "e", "l", "o", "a">>
        Run(k, from) == [i \in 1..k |-> GlyphCycle[((from + i) % 5) + 1]]
        Breaks == {<<>>, <<"\n">>, <<"\n", "\n">>}
    IN  { Run(k1, 0) \o b1 \o Run(k2, 1) \o b2 \o Run(k3, 2) :
            k1 \in RunLens, b1 \in Breaks, k2 \in RunLens, b2 \in Breaks,
            k3 \in RunLens }

\* the first for loop of if (text_changed), lines 291-303
P15_Wrap ==
    /\ prog = "practice15"
    /\ pc = "loop"
    /\ text_changed
    /\ unwrapped' = text
    /\ text' = WrapLoop(text, 1, 0)
    /\ pc' = "wrapped"
    /\ UNCHANGED <<prog, step, window, gl_context, sdl_error, thrown,
                   stderr_out, exit_status, frames, history, supplied>>
    /\ UNCHANGED <<text_changed, vbo_size, transform, draw_count, polled,
                   since_change>>
    /\ UNCHANGED <<p14Vars, sponzaVars, shaderVars, session, bezierVars, sceneVars,
                   hwVars, metaballs>>

InitWrap ==
    /\ Started("practice15")
    /\ P14Locals({1}, {<<800, 600>>})
    /\ SponzaLocals
    /\ ShaderIdle
    /\ text \in WrapInputs
    /\ text_changed = TRUE
    /\ vbo_size = 0
    /\ transform = [identity |-> TRUE]
    /\ draw_count = 0
    /\ polled = <<>>
    /\ since_change = 0
    /\ LateLocals
    /\ session = PlaySession

NextWrap == P15_Wrap

SpecWrap == InitWrap /\ [][NextWrap]_vars

\* `after` is `before` with line breaks inserted and nothing else changed
RECURSIVE OnlyBreaksInserted(_, _, _, _)
OnlyBreaksInserted(before, i, after, j) ==
    IF j > Len(after) THEN i > Len(before)
    ELSE IF i <= Len(before) /\ before[i] = after[j]
         THEN OnlyBreaksInserted(before, i + 1, after, j + 1)
         ELSE after[j] = "\n" /\ OnlyBreaksInserted(before, i, after, j + 1)

\* C21: when the line-wrapping pass of practice15 has run, every line_width
\* consecutive characters of the text include a line break (a run of other
\* characters is shorter than line_width), the text is the text before the
\* pass with line breaks inserted and nothing else changed, and the pass has
\* ended after inserting at most one line break per line_width - 1
\* characters.
C21_WrappedLinesShort ==
    pc = "wrapped" =>
        /\ \A i \in 1..(Len(text) - line_width + 1) :
               \E j \in i..(i + line_width - 1) : text[j] = "\n"
        /\ OnlyBreaksInserted(unwrapped, 1, text, 1)
        /\ Len(text) <= Len(unwrapped) + Len(unwrapped) \div (line_width - 1)

\* a text of a run of 25 or more characters, line breaks and further
\* characters has been wrapped: two line breaks were inserted in its first run
C21_Witness ==
    /\ pc = "wrapped"
    /\ Len(unwrapped) > 2 * line_width
    /\ \A i \in 1..(2 * line_width - 1) : unwrapped[i] # "\n"
    /\ \E i \in DOMAIN unwrapped : unwrapped[i] = "\n"
    /\ text[line_width] = "\n" /\ text[2 * line_width] = "\n"
    /\ Len(text) >= Len(unwrapped) + 2

----------------------------------------------------------------------------
(* The Bezier program (part_000).  A float is modelled as a fixed-point    *)
(* number of 1/16 pixel, rounded down after each operation; a colour is    *)
(* the four bytes of vertex::color.  One action is one iteration of        *)
(* while (running).                                                        *)

MaxFramesBez == 4   \* iterations of the loop explored
MaxPoints == 4      \* most control points the clicks may lead to
MaxQuality == 6     \* highest quality the key presses may lead to

\* where the user clicks: (0, 0), (30, 40) and (60, 0) pixels
ClickSet == {<<0, 0>>, <<480, 640>>, <<960, 0>>}

\* the largest r with r * r <= x, for lo * lo <= x < hi * hi
RECURSIVE SqrtBetween(_, _, _)
SqrtBetween(x, lo, hi) ==
    IF hi - lo <= 1 THEN lo
    ELSE LET mid == (lo + hi) \div 2
         IN  IF mid * mid <= x THEN SqrtBetween(x, mid, hi)
             ELSE SqrtBetween(x, lo, mid)

\* float hypot(vec2 a, vec2 b): std::hypot(a.x - b.x, a.y - b.y)
hypot(a, b) ==
    LET dx == a[1] - b[1]
        dy == a[2] - b[2]
    IN  SqrtBetween(dx * dx + dy * dy, 0, 46340)

\* mutant: the distance of a vertex is the length of its segment alone
correct_distance_flat(vs, new_vertex) ==
    Append(vs,
        IF vs # <<>>
        THEN [new_vertex EXCEPT
                !.distance = hypot(vs[Len(vs)].position, new_vertex.position)]
        ELSE new_vertex)

\* void correct_distance(std::vector<vertex> &vertices, vertex new_vertex)
correct_distance(vs, new_vertex) ==
    Append(vs,
        IF vs # <<>>
        THEN [new_vertex EXCEPT
                !.distance = vs[Len(vs)].distance
                             + hypot(vs[Len(vs)].position, new_vertex.position)]
        ELSE new_vertex)

\* De Casteljau's algorithm: each pass of the outer loop replaces points[i]
\* by points[i] * (1 - t) + points[i + 1] * t for the points still in use;
\* t is the fraction t.n / t.d
RECURSIVE Casteljau(_, _)
Casteljau(points, t) ==
    IF Len(points) = 1 THEN points[1]
    ELSE Casteljau(
            [i \in 1..(Len(points) - 1) |->
                << (points[i][1] * (t.d - t.n) + points[i + 1][1] * t.n) \div t.d,
                   (points[i][2] * (t.d - t.n) + points[i + 1][2] * t.n) \div t.d >>],
            t)

\* vec2 bezier(std::vector<vertex> const &vertices, float t)
bezier(vs, t) == Casteljau([i \in 1..Len(vs) |-> vs[i].position], t)

\* static const std::uint8_t colors[][4] of generate_bezier and of main
colors_bez == << <<255, 255, 0, 255>>, <<0, 255, 255, 255>>, <<255, 0, 255, 255>> >>
colors_main == << <<255, 0, 0, 255>>, <<0, 255, 0, 255>>, <<0, 0, 255, 255>> >>

\* a % b of C++ for b > 0: the sign of the result is the sign of a
Rem(a, b) == IF a >= 0 THEN a % b ELSE -((-a) % b)

\* the for loop of generate_bezier: dt has reached i / count
RECURSIVE GenerateLoop(_, _, _, _)
GenerateLoop(vs, count, i, ret) ==
    IF i > count THEN ret
    ELSE GenerateLoop(vs, count, i + 1,
            correct_distance(ret,
                [position |-> bezier(vs, [n |-> i, d |-> count]),
                 distance |-> 0,
                 color |-> colors_bez[Rem(i, 3) + 1]]))

\* std::vector<vertex> generate_bezier(const std::vector<vertex> &vertices,
\* int quality), for two or more vertices
generate_bezier(vs, q) == GenerateLoop(vs, (Len(vs) - 1) * q, 0, <<>>)

EventsBez ==
    { [type |-> "SDL_QUIT"],
      [type |-> "SDL_WINDOWEVENT_RESIZED", data1 |-> 300, data2 |-> 600],
      [type |-> "SDL_MOUSEBUTTONDOWN", button |-> "SDL_BUTTON_RIGHT", x |-> 0, y |-> 0],
      [type |-> "SDL_MOUSEBUTTONDOWN", button |-> "SDL_BUTTON_MIDDLE", x |-> 0, y |-> 0],
      [type |-> "SDL_KEYDOWN", sym |-> "LEFT"],
      [type |-> "SDL_KEYDOWN", sym |-> "RIGHT"],
      [type |-> "SDL_KEYDOWN", sym |-> "a"] }
    \cup { [type |-> "SDL_MOUSEBUTTONDOWN", button |-> "SDL_BUTTON_LEFT",
            x |-> c[1], y |-> c[2]] : c \in ClickSet }

\* what SDL can have queued for one iteration: nothing, one event, or one of
\* a few pairs
BurstsBez ==
    LET left == [type |-> "SDL_MOUSEBUTTONDOWN", button |-> "SDL_BUTTON_LEFT",
                 x |-> 480, y |-> 640]
        right == [type |-> "SDL_MOUSEBUTTONDOWN", button |-> "SDL_BUTTON_RIGHT",
                  x |-> 0, y |-> 0]
        more == [type |-> "SDL_KEYDOWN", sym |-> "RIGHT"]
    IN  {<<>>} \cup {<<e>> : e \in EventsBez}
        \cup { <<left, left>>, <<left, right>>, <<right, right>>, <<right, left>>,
               <<more, left>>,
               <<left, more>>, <<[type |-> "SDL_QUIT"], left>> }

\* mutant: a right click takes a point off without looking at the list
MouseButtonDown_nocheck(e, st) ==
    LET clicked ==
            IF e.button = "SDL_BUTTON_LEFT"
            THEN [st EXCEPT
                    !.color = @ + 1,
                    !.vertices = correct_distance(@,
                        [position |-> <<e.x, e.y>>, distance |-> 0,
                         color |-> colors_main[Rem(st.color + 1, 3) + 1]])]
            ELSE IF e.button = "SDL_BUTTON_RIGHT"
            THEN [st EXCEPT !.vertices = SubSeq(@, 1, Len(@) - 1), !.color = @ - 1]
            ELSE st
    IN  [clicked EXCEPT !.need_redraw = TRUE]

\* case SDL_MOUSEBUTTONDOWN, lines 269-291
MouseButtonDown(e, st) ==
    LET clicked ==
            IF e.button = "SDL_BUTTON_LEFT"
            THEN [st EXCEPT
                    !.color = @ + 1,
                    !.vertices = correct_distance(@,
                        [position |-> <<e.x, e.y>>, distance |-> 0,
                         color |-> colors_main[Rem(st.color + 1, 3) + 1]])]
            ELSE IF e.button = "SDL_BUTTON_RIGHT" /\ st.vertices # <<>>
            THEN [st EXCEPT !.vertices = SubSeq(@, 1, Len(@) - 1), !.color = @ - 1]
            ELSE st
    IN  [clicked EXCEPT !.need_redraw = TRUE]

\* mutant: a key press changes the quality and asks for no new curve
KeyDown_noredraw(e, st) ==
    IF e.sym = "LEFT"
    THEN [st EXCEPT !.quality = IF 1 = @ THEN 1 ELSE @ - 1]
    ELSE IF e.sym = "RIGHT" THEN [st EXCEPT !.quality = @ + 1]
    ELSE st

\* case SDL_KEYDOWN, lines 292-298
KeyDown(e, st) ==
    LET pressed ==
            IF e.sym = "LEFT"
            THEN [st EXCEPT !.quality = IF 1 = @ THEN 1 ELSE @ - 1]
            ELSE IF e.sym = "RIGHT" THEN [st EXCEPT !.quality = @ + 1]
            ELSE st
    IN  [pressed EXCEPT !.need_redraw = TRUE]

\* one case of switch (event.type), lines 254-299
HandleEventBez(e, st) ==
    CASE e.type = "SDL_QUIT" -> [st EXCEPT !.running = FALSE]
      [] e.type = "SDL_WINDOWEVENT_RESIZED" ->
            [st EXCEPT !.width = e.data1, !.height = e.data2]
      [] e.type = "SDL_MOUSEBUTTONDOWN" -> MouseButtonDown(e, st)
      [] e.type = "SDL_KEYDOWN" -> KeyDown(e, st)

\* for (SDL_Event event; SDL_PollEvent(&event);) switch (event.type)
RECURSIVE EventLoopBez(_, _, _)
EventLoopBez(events, k, st) ==
    IF k > Len(events) THEN st
    ELSE EventLoopBez(events, k + 1, HandleEventBez(events[k], st))

\* one iteration of while (running), lines 251-346
Bz_Iteration ==
    /\ prog = "bezier"
    /\ pc = "loop"
    /\ running
    /\ frames < MaxFramesBez
    /\ \E events \in BurstsBez :
       \E st \in {EventLoopBez(events, 1,
                      [running |-> running, width |-> width, height |-> height,
                       vertices |-> vertices, color |-> color,
                       quality |-> quality, need_redraw |-> need_redraw])} :
       /\ Len(st.vertices) <= MaxPoints
       /\ st.quality <= MaxQuality
       /\ polled' = events
       /\ running' = st.running
       /\ width' = st.width
       /\ height' = st.height
       /\ vertices' = st.vertices
       /\ color' = st.color
       /\ quality' = st.quality
       /\ IF ~st.running
          THEN \* if (!running) break; SDL_GL_DeleteContext; SDL_DestroyWindow
               /\ need_redraw' = st.need_redraw
               /\ gl_context' = FALSE
               /\ window' = FALSE
               /\ exit_status' = "EXIT_SUCCESS"
               /\ pc' = "exited"
               /\ UNCHANGED <<time, vertices_bez, vbo, vbo_bez, draws, frames>>
          ELSE \E curve \in {IF st.need_redraw /\ Len(st.vertices) > 2
                             THEN generate_bezier(st.vertices, st.quality)
                             ELSE vertices_bez} :
               /\ time' = time + 16
               /\ vbo' = IF st.need_redraw THEN st.vertices ELSE vbo
               /\ vertices_bez' = curve
               /\ vbo_bez' = IF st.need_redraw /\ Len(st.vertices) > 2
                             THEN curve ELSE vbo_bez
               /\ need_redraw' = FALSE
               /\ draws' =
                     << [mode |-> "GL_POINTS", vao |-> "vao", dash |-> FALSE,
                         count |-> Len(st.vertices), data |-> vbo'],
                        [mode |-> "GL_LINE_STRIP", vao |-> "vao", dash |-> FALSE,
                         count |-> Len(st.vertices), data |-> vbo'] >>
                     \o IF Len(st.vertices) > 2
                        THEN << [mode |-> "GL_LINE_STRIP", vao |-> "vao_bez",
                                 dash |-> TRUE, count |-> Len(curve),
                                 data |-> vbo_bez'] >>
                        ELSE <<>>
               /\ frames' = frames + 1
               /\ UNCHANGED <<pc, window, gl_context, exit_status>>
    /\ UNCHANGED <<prog, step, sdl_error, thrown, stderr_out, history, supplied>>
    /\ UNCHANGED <<num_meshes, paused, button_down, camera_position,
                   camera_rotation, queries, firstFreeQuery, gpu, frustum_offsets,
                   lod_offsets, buffers, visible_items, seen, logged, age>>
    /\ UNCHANGED <<text, text_changed, vbo_size, transform, draw_count,
                   since_change>>
    /\ UNCHANGED <<sponzaVars, shaderVars, session, unwrapped, sceneVars, hwVars,
                   metaballs>>

InitBezier ==
    /\ Started("bezier")
    /\ P14Locals({1}, {<<800, 600>>})
    /\ SponzaLocals
    /\ OtherLocals
    /\ session = PlaySession

NextBezier == Bz_Iteration

SpecBezier == InitBezier /\ [][NextBezier]_vars


\* the positions of the control points, first to last
Positions(vs) == [i \in DOMAIN vs |-> vs[i].position]

\* a stack of positions after the clicks among the events: a left click
\* pushes its position, a right click pops unless the stack is empty
RECURSIVE StackAfter(_, _, _)
StackAfter(stack, events, k) ==
    IF k > Len(events) THEN stack
    ELSE LET e == events[k]
         IN  StackAfter(
                IF e.type = "SDL_MOUSEBUTTONDOWN" /\ e.button = "SDL_BUTTON_LEFT"
                THEN Append(stack, <<e.x, e.y>>)
                ELSE IF e.type = "SDL_MOUSEBUTTONDOWN" /\ e.button = "SDL_BUTTON_RIGHT"
                        /\ stack # <<>>
                THEN SubSeq(stack, 1, Len(stack) - 1)
                ELSE stack,
                events, k + 1)

\* C24: every iteration of the Bezier program leaves the control points as
\* the stack that the polled clicks make of the earlier control points (a
\* left click pushes, a right click pops, a right click on the empty list
\* changes nothing, other events change nothing); the counter color equals
\* the number of control points before and after, so it is never negative
\* and color % 3 is 0, 1 or 2.
C24_PointsAreClickStack ==
    [][ (prog = "bezier" /\ pc = "loop") =>
            /\ Positions(vertices') = StackAfter(Positions(vertices), polled', 1)
            /\ color = Len(vertices) /\ color' = Len(vertices')
            /\ Rem(color', 3) \in 0..2
      ]_vars

\* a right click on the empty list was polled after three frames in which
\* points were put on and taken off
C24_Witness ==
    /\ prog = "bezier" /\ pc = "loop" /\ frames = 4
    /\ Len(polled) = 2
    /\ \A k \in 1..2 : /\ polled[k].type = "SDL_MOUSEBUTTONDOWN"
                       /\ polled[k].button = "SDL_BUTTON_RIGHT"
    /\ vertices = <<>> /\ color = 0
    /\ vbo_bez # <<>>


\* an iteration of the Bezier program that reached SDL_GL_SwapWindow
FrameDrawnBez == prog = "bezier" /\ pc = "loop" /\ frames' = frames + 1

\* the draw calls of the frame that use vao_bez, the dashed curve
CurveDraws(ds) == {k \in DOMAIN ds : ds[k].vao = "vao_bez"}

\* C23: a frame of the Bezier program draws the dashed curve exactly when
\* there are three or more control points, and the buffer the draw reads
\* then holds generate_bezier of the control points and the quality as they
\* are in that frame, all of it drawn as one dashed line strip.
C23_CurveIsCurrent ==
    [][ FrameDrawnBez =>
            /\ (CurveDraws(draws') # {}) <=> (Len(vertices') >= 3)
            /\ \A k \in CurveDraws(draws') :
                  /\ draws'[k].data = generate_bezier(vertices', quality')
                  /\ draws'[k].count = Len(draws'[k].data)
                  /\ draws'[k].mode = "GL_LINE_STRIP" /\ draws'[k].dash
      ]_vars

\* the quality was raised by a key press in a frame of its own after the
\* curve of three points had been drawn with quality 4
C23_Witness ==
    /\ prog = "bezier" /\ pc = "loop" /\ frames = 4
    /\ polled = <<[type |-> "SDL_KEYDOWN", sym |-> "RIGHT"]>>
    /\ quality = 5 /\ Len(vertices) = 3
    /\ CurveDraws(draws) = {3} /\ draws[3].count = 11

\* C25: the curve that a frame of the Bezier program generates from n >= 3
\* control points with quality q >= 1 has (n - 1) * q + 1 vertices; the
\* distance of the first is 0 and the distance of each later one is the
\* distance of the one before plus the length of the segment between the
\* two, so the distances never decrease along the curve.
C25_CurveLengthAndDistance ==
    [][ (FrameDrawnBez /\ Len(vertices') >= 3) =>
            LET c == vertices_bez'
            IN  /\ quality' >= 1
                /\ Len(c) = (Len(vertices') - 1) * quality' + 1
                /\ c[1].distance = 0
                /\ \A i \in 2..Len(c) :
                      /\ c[i].distance = c[i - 1].distance
                                         + hypot(c[i - 1].position, c[i].position)
                      /\ c[i].distance >= c[i - 1].distance
      ]_vars

\* a curve of four control points and quality 3: ten vertices, the distance
\* growing along the curve
C25_Witness ==
    /\ prog = "bezier" /\ pc = "loop"
    /\ Len(vertices) = 4 /\ quality = 3
    /\ Len(vertices_bez) = 10
    /\ vertices_bez[5].distance > 16
    /\ vertices_bez[10].distance > vertices_bez[5].distance + 16

----------------------------------------------------------------------------
(* Sponza: the material ranges of the scene (part_001).  The OBJ reader    *)
(* triangulates, so a mesh has one material id and three indices per face. *)

MaxShapes == 2      \* shapes in the OBJ file
MaxFaces == 4       \* faces of a shape
MaterialIds == 0..2

\* the meshes reader.GetShapes() can return: one or more faces each
Meshes ==
    { [material_ids |-> ids, indices |-> 3 * Len(ids)] :
        ids \in UNION {[1..n -> MaterialIds] : n \in 1..MaxFaces} }

\* the shapes of the file: any mesh first, then up to MaxShapes - 1 meshes
\* of one face, of one material and of two materials
SceneShapes ==
    LET Mesh(ids) == [material_ids |-> ids, indices |-> 3 * Len(ids)]
        More == {Mesh(<<1>>), Mesh(<<2, 2, 2>>), Mesh(<<0, 1>>)}
    IN  { <<m>> \o rest :
            m \in Meshes, rest \in UNION {[1..n -> More] : n \in 0..(MaxShapes - 1)} }

\* load_scene pushes one vertex per index of every face of every shape
RECURSIVE load_scene(_, _)
load_scene(shps, s) ==
    IF s > Len(shps) THEN 0
    ELSE shps[s].indices + load_scene(shps, s + 1)

\* the for loop over shape.mesh.material_ids, lines 442-452; i, id and the
\* result count from 0 as in the code, ids[k + 1] is material_ids[k]
RECURSIVE FaceLoop(_, _, _, _, _)
FaceLoop(ids, i, cur, id, out) ==
    IF i >= Len(ids) THEN [cur |-> cur, id |-> id, out |-> out]
    ELSE IF ids[i + 1] = ids[id + 1] /\ id = 0
         THEN FaceLoop(ids, i + 1, cur + 1, id, out)
         ELSE FaceLoop(ids, i + 1, cur, i,
                  IF id = 0
                  THEN Append(out, [first |-> ids[id + 1], second |-> 3 * cur])
                  ELSE out)

\* mutant: the last range of a shape always gets all indices of the shape
ShapeFaces_whole(mesh) ==
    LET r == FaceLoop(mesh.material_ids, 0, 0, 0, <<>>)
    IN  Append(r.out, [first |-> mesh.material_ids[r.id + 1],
                       second |-> mesh.indices])

\* the body of for (auto shape : shapes), lines 440-458: what it emplaces
ShapeFaces(mesh) ==
    LET r == FaceLoop(mesh.material_ids, 0, 0, 0, <<>>)
    IN  IF r.id = 0
        THEN Append(r.out, [first |-> mesh.material_ids[r.id + 1],
                            second |-> mesh.indices])
        ELSE Append(r.out, [first |-> mesh.material_ids[r.id + 1],
                            second |-> mesh.indices - 3 * r.cur])

\* void load_faces(const auto &shapes, std::vector<std::pair<int, int>> &faces)
RECURSIVE load_faces(_, _, _)
load_faces(shps, s, fs) ==
    IF s > Len(shps) THEN fs
    ELSE load_faces(shps, s + 1, fs \o ShapeFaces(shps[s]))

\* the for loop of draw_scene, lines 811-845: the glDrawArrays calls
RECURSIVE DrawFaces(_, _, _, _)
DrawFaces(fs, k, first, out) ==
    IF k > Len(fs) THEN out
    ELSE DrawFaces(fs, k + 1, first + fs[k].second,
            Append(out, [mode |-> "GL_TRIANGLES", material |-> fs[k].first,
                         first |-> first, count |-> fs[k].second]))

\* load_scene(shapes, attrib, scene) and load_faces(shapes, faces), lines
\* 645-646 and 806-807
Sz_LoadScene ==
    /\ prog = "sponza"
    /\ pc = "load_scene"
    /\ scene_vertices' = load_scene(shapes, 1)
    /\ faces' = load_faces(shapes, 1, <<>>)
    /\ emitted' = [s \in DOMAIN shapes |-> ShapeFaces(shapes[s])]
    /\ pc' = "loop"
    /\ UNCHANGED <<prog, step, window, gl_context, sdl_error, thrown,
                   stderr_out, exit_status, frames, history, supplied>>
    /\ UNCHANGED <<p14Vars, sponzaVars, shaderVars, p15Vars, session, unwrapped,
                   bezierVars, shapes, hwVars, metaballs>>

\* one call of draw_scene(depth)
Sz_DrawScene ==
    /\ prog = "sponza"
    /\ pc = "loop"
    /\ shapes # <<>>
    /\ \E depth \in BOOLEAN :
          draws' = DrawFaces(faces, 1, 0, <<>>)
    /\ pc' = "drawn"
    /\ UNCHANGED <<prog, step, window, gl_context, sdl_error, thrown,
                   stderr_out, exit_status, frames, history, supplied>>
    /\ UNCHANGED <<num_meshes, running, paused, time, button_down,
                   camera_position, camera_rotation, width, height, queries,
                   firstFreeQuery, gpu, frustum_offsets, lod_offsets, buffers,
                   visible_items, seen, logged, age>>
    /\ UNCHANGED <<sponzaVars, shaderVars, p15Vars, session, lateVars>>

\* main of the Sponza program before load_scene, for an OBJ file of one to
\* MaxShapes shapes
InitScene ==
    /\ prog = "sponza"
    /\ pc = "load_scene"
    /\ step = Len(StartupOf("sponza")) + 1
    /\ window = TRUE
    /\ gl_context = TRUE
    /\ sdl_error = <<>>
    /\ thrown = NoException
    /\ stderr_out = <<>>
    /\ exit_status = "running"
    /\ frames = 0
    /\ history = StartedHistory("sponza")
    /\ supplied = <<>>
    /\ P14Locals({1}, {<<800, 600>>})
    /\ SponzaLocals
    /\ ShaderIdle
    /\ P15Locals
    /\ unwrapped = <<>>
    /\ BezierLocals
    /\ HwLocals("homework1")
    /\ metaballs = <<>>
    /\ shapes \in SceneShapes
    /\ scene_vertices = 0
    /\ faces = <<>>
    /\ emitted = <<>>
    /\ session = PlaySession

NextScene ==
    \/ Sz_LoadScene
    \/ Sz_DrawScene

SpecScene == InitScene /\ [][NextScene]_vars

\* the sum of the counts of the ranges fs[k..]
RECURSIVE CountSum(_, _)
CountSum(fs, k) == IF k > Len(fs) THEN 0 ELSE fs[k].second + CountSum(fs, k + 1)

\* C26: once load_faces has run, the counts of the ranges emplaced for a
\* shape add up to the number of indices of the shape and each count is
\* positive; the glDrawArrays calls of draw_scene then start at 0, each
\* starts where the one before ended, and the last ends at
\* scene.vertices.size().
C26_RangesCoverShape ==
    /\ pc \in {"loop", "drawn"} =>
          /\ \A s \in DOMAIN shapes :
                /\ CountSum(emitted[s], 1) = shapes[s].indices
                /\ \A k \in DOMAIN emitted[s] : emitted[s][k].second > 0
          /\ CountSum(faces, 1) = scene_vertices
    /\ pc = "drawn" =>
          /\ Len(draws) = Len(faces)
          /\ draws[1].first = 0
          /\ \A k \in 2..Len(draws) :
                draws[k].first = draws[k - 1].first + draws[k - 1].count
          /\ draws[Len(draws)].first + draws[Len(draws)].count = scene_vertices

\* two shapes were drawn, the first with faces of two materials (two
\* ranges), the second of one material (one range)
C26_Witness ==
    /\ pc = "drawn"
    /\ Len(shapes) = 2
    /\ shapes[1].material_ids = <<1, 1, 0, 0>>
    /\ shapes[2].material_ids = <<2, 2, 2>>
    /\ draws = << [mode |-> "GL_TRIANGLES", material |-> 1, first |-> 0, count |-> 6],
                  [mode |-> "GL_TRIANGLES", material |-> 0, first |-> 6, count |-> 6],
                  [mode |-> "GL_TRIANGLES", material |-> 2, first |-> 12, count |-> 9] >>


\* the range of a shape that holds the vertices of the shape's face f
\* (f = 1 for the first face): the first range that ends after them
RangeOfFace(fs, f) ==
    CHOOSE k \in DOMAIN fs :
        /\ CountSum(fs, 1) - CountSum(fs, k + 1) >= 3 * f
        /\ \A j \in 1..(k - 1) : CountSum(fs, 1) - CountSum(fs, j + 1) < 3 * f

\* C27: once load_faces has run, the range that holds a face carries the
\* material id of that face, for every face of every shape.
C27_RangeMaterialIsFaceMaterial ==
    pc \in {"loop", "drawn"} =>
        \A s \in DOMAIN shapes :
            \A f \in DOMAIN shapes[s].material_ids :
                emitted[s][RangeOfFace(emitted[s], f)].first
                    = shapes[s].material_ids[f]

----------------------------------------------------------------------------
(* homework1 and the moving-disc program (part_003, second main).  One     *)
(* action is one iteration of while (running); the frame is represented by *)
(* the uniforms of its draw call.                                          *)

MaxFramesHw == 3    \* iterations of the loop explored

KeysHw == {"SPACE", "UP", "DOWN", "LEFT", "RIGHT", "a"}

SpaceDown == [type |-> "SDL_KEYDOWN", sym |-> "SPACE"]

\* what SDL can have queued for one iteration when the keys in down are
\* held: nothing, one event (a key is released only while it is held), or
\* one of a few pairs
BurstsHw(down) ==
    LET Down(k) == [type |-> "SDL_KEYDOWN", sym |-> k]
    IN  {<<>>, <<[type |-> "SDL_QUIT"]>>,
         <<[type |-> "SDL_WINDOWEVENT_RESIZED", data1 |-> 300, data2 |-> 600]>>}
        \cup {<<Down(k)>> : k \in KeysHw}
        \cup {<<[type |-> "SDL_KEYUP", sym |-> k]>> : k \in down}
        \cup { <<SpaceDown, SpaceDown>>, <<Down("RIGHT"), Down("LEFT")>>,
               <<Down("UP"), Down("DOWN")>>, <<[type |-> "SDL_QUIT"], SpaceDown>> }

\* one case of switch (event.type) of homework1, lines 370-398
HandleEventHw(e, st) ==
    CASE e.type = "SDL_QUIT" -> [st EXCEPT !.running = FALSE]
      [] e.type = "SDL_WINDOWEVENT_RESIZED" ->
            [st EXCEPT !.width = e.data1, !.height = e.data2]
      [] e.type = "SDL_KEYDOWN" ->
            LET s1 == [st EXCEPT !.key_down = @ \cup {e.sym},
                                 !.paused = IF e.sym = "SPACE" THEN ~@ ELSE @]
                s2 == IF "UP" \in s1.key_down THEN [s1 EXCEPT !.speed = @ + 1] ELSE s1
                s3 == IF "DOWN" \in s2.key_down THEN [s2 EXCEPT !.speed = @ - 1] ELSE s2
                s4 == IF "RIGHT" \in s3.key_down
                      THEN [s3 EXCEPT !.shader_variation = IF @ = 5 THEN @ ELSE @ + 1]
                      ELSE s3
            IN  IF "LEFT" \in s4.key_down
                THEN [s4 EXCEPT !.shader_variation = IF @ = 0 THEN 0 ELSE @ - 1]
                ELSE s4
      [] e.type = "SDL_KEYUP" -> [st EXCEPT !.key_down = @ \ {e.sym}]

\* one case of switch (event.type) of the disc program, part_003 lines 675-702
HandleEventDisc(e, st) ==
    CASE e.type = "SDL_QUIT" -> [st EXCEPT !.running = FALSE]
      [] e.type = "SDL_WINDOWEVENT_RESIZED" ->
            [st EXCEPT !.width = e.data1, !.height = e.data2]
      [] e.type = "SDL_KEYDOWN" ->
            LET s1 == [st EXCEPT !.key_down = @ \cup {e.sym},
                                 !.paused = IF e.sym = "SPACE" THEN ~@ ELSE @]
            IN  IF "UP" \in s1.key_down THEN [s1 EXCEPT !.speed = @ + 1]
                ELSE IF "DOWN" \in s1.key_down THEN [s1 EXCEPT !.speed = @ - 1]
                ELSE s1
      [] e.type = "SDL_KEYUP" -> [st EXCEPT !.key_down = @ \ {e.sym}]

\* for (SDL_Event event; SDL_PollEvent(&event);) switch (event.type), of the
\* program p
RECURSIVE EventLoopHw(_, _, _, _)
EventLoopHw(p, events, k, st) ==
    IF k > Len(events) THEN st
    ELSE EventLoopHw(p, events, k + 1,
            IF p = "disc" THEN HandleEventDisc(events[k], st)
            ELSE HandleEventHw(events[k], st))

\* one iteration of while (running) of homework1 (lines 369-451) and of the
\* disc program (part_003 lines 672-754)
Hw_Iteration(p) ==
    /\ prog = p
    /\ pc = "loop"
    /\ running
    /\ frames < MaxFramesHw
    /\ \E events \in BurstsHw(key_down) :
       \E st \in {EventLoopHw(p, events, 1,
                      [running |-> running, width |-> width, height |-> height,
                       key_down |-> key_down, paused |-> paused, speed |-> speed,
                       shader_variation |-> shader_variation])} :
       /\ polled' = events
       /\ running' = st.running
       /\ width' = st.width
       /\ height' = st.height
       /\ key_down' = st.key_down
       /\ paused' = st.paused
       /\ speed' = st.speed
       /\ shader_variation' = st.shader_variation
       /\ IF ~st.running
          THEN \* if (!running) break; SDL_GL_DeleteContext; SDL_DestroyWindow
               /\ gl_context' = FALSE
               /\ window' = FALSE
               /\ exit_status' = "EXIT_SUCCESS"
               /\ pc' = "exited"
               /\ UNCHANGED <<time, draws, frames>>
          ELSE \* if (!paused) time += speed; ... glDrawElements
               /\ time' = IF st.paused THEN time ELSE time + st.speed
               /\ draws' = << [mode |-> "GL_TRIANGLES", time |-> time',
                               shader_variation |-> st.shader_variation] >>
               /\ frames' = frames + 1
               /\ UNCHANGED <<pc, window, gl_context, exit_status>>
    /\ UNCHANGED <<prog, step, sdl_error, thrown, stderr_out, history, supplied>>
    /\ UNCHANGED <<num_meshes, button_down, camera_position, camera_rotation,
                   queries, firstFreeQuery, gpu, frustum_offsets, lod_offsets,
                   buffers, visible_items, seen, logged, age>>
    /\ UNCHANGED <<sponzaVars, shaderVars, p15Text, session, unwrapped,
                   bezierVars, sceneVars, metaballs>>

Hw_Homework1 == Hw_Iteration("homework1")

Hw_Disc == Hw_Iteration("disc")

InitHomework ==
    /\ Started("homework1")
    /\ P14Locals({1}, {<<800, 600>>})
    /\ SponzaLocals
    /\ OtherLocals
    /\ session = PlaySession

NextHomework == Hw_Homework1

SpecHomework == InitHomework /\ [][NextHomework]_vars


\* C29: shader_variation of homework1 is within 0..5 before and after every
\* iteration; an iteration that polled exactly one event changes it only if
\* that event is the key-down of LEFT or of RIGHT, and then by one step.
C29_VariationFollowsArrows ==
    [][ (prog = "homework1" /\ pc = "loop") =>
            /\ shader_variation \in 0..5 /\ shader_variation' \in 0..5
            /\ (Len(polled') = 1 /\ shader_variation' # shader_variation) =>
                  /\ polled'[1].type = "SDL_KEYDOWN"
                  /\ polled'[1].sym \in {"LEFT", "RIGHT"}
                  /\ shader_variation' - shader_variation \in {-1, 1}
      ]_vars

----------------------------------------------------------------------------
(* The pause flag of practice14, homework1, the Sponza program and the     *)
(* disc program: the loops of the four programs side by side.              *)

PauseProgs == {"practice14", "homework1", "sponza", "disc"}

\* a run in which SPACE and one other key are used, and two SPACE key-downs
\* can be queued together
PauseSession ==
    [keys |-> {"SPACE", "w"}, sizes |-> {}, dts |-> DtSet, frames |-> MaxFrames14,
     unbounded |-> FALSE, latency |-> MaxFrames14,
     bursts |-> {<<SpaceDown, SpaceDown>>}]

InitPause ==
    /\ \E p \in PauseProgs : Started(p) /\ HwLocals(p)
    /\ P14Locals({1}, {<<800, 600>>})
    /\ SponzaLocals
    /\ ShaderIdle
    /\ P15Locals
    /\ unwrapped = <<>>
    /\ BezierLocals
    /\ SceneLocals
    /\ metaballs = <<>>
    /\ session = PauseSession

NextPause ==
    \/ NextP14
    \/ NextSponza
    \/ Hw_Homework1
    \/ Hw_Disc

SpecPause == InitPause /\ [][NextPause]_vars

\* the SPACE key-down events among events[k..]
RECURSIVE SpaceDowns(_, _)
SpaceDowns(events, k) ==
    IF k > Len(events) THEN 0
    ELSE (IF events[k] = SpaceDown THEN 1 ELSE 0) + SpaceDowns(events, k + 1)

\* the step polls the events of an iteration
PollStep ==
    \/ prog = "practice14" /\ pc = "poll"
    \/ prog \in {"homework1", "sponza", "disc"} /\ pc = "loop"

\* C28: in practice14, homework1, the Sponza program and the disc program
\* the events of an iteration leave the pause flag as it was if they hold an
\* even number of SPACE key-downs and inverted if they hold an odd number
\* (each SPACE key-down toggles it); any step that ends with the flag set
\* leaves the animation time unchanged, whatever the frame time and the
\* speed.
C28_PauseFreezesTime ==
    [][ (prog \in PauseProgs) =>
            /\ PollStep =>
                  (paused' = (IF SpaceDowns(polled', 1) % 2 = 1 THEN ~paused ELSE paused))
            /\ (~PollStep) => (paused' = paused)
            /\ paused' => (time' = time)
      ]_vars

\* homework1 after three frames: the speed was raised with UP in the first,
\* time went on in the second, SPACE paused the third
C28_Witness ==
    /\ prog = "homework1" /\ pc = "loop" /\ frames = 3
    /\ polled = <<SpaceDown>>
    /\ paused /\ speed = 2 /\ time = 4

----------------------------------------------------------------------------
(* The metaball field program (part_003, first main).  Lengths are in      *)
(* tenths, a frame time is a whole number of time steps, a direction is in *)
(* tenths per time step.  One action is one iteration of while (running).  *)

MaxFramesBalls == 4 \* iterations of the loop explored

\* const auto range = 4.f;
range == 40

\* frame times: none, one step, three steps
DtBalls == {0, 1, 3}

Abs(x) == IF x < 0 THEN -x ELSE x

\* what init_metaballs can put into the vector: positions and directions
\* with both coordinates between -2 and 2 (one ball is followed)
InitialBalls ==
    { [position |-> <<x, 0>>, direction |-> <<dx, dy>>] :
        x \in {-20, 20}, dx \in {-15, 10}, dy \in {-20, 5} }

\* the body of for (auto &ball : metaballs) in update_metaballs
UpdateBall(ball, dt) ==
    LET x == ball.position[1] + dt * ball.direction[1]
        y == ball.position[2] + dt * ball.direction[2]
    IN  [position |-> <<x, y>>,
         direction |-> << ball.direction[1] * (IF Abs(x) > range THEN -1 ELSE 1),
                          ball.direction[2] * (IF Abs(y) > range THEN -1 ELSE 1) >>]

\* void update_metaballs(float dt)
update_metaballs(balls, dt) == [i \in DOMAIN balls |-> UpdateBall(balls[i], dt)]

\* one iteration of while (running), lines 340-396; update_vertices and the
\* draw call read the balls and write no state that is kept
Mb_Iteration ==
    /\ prog = "metaballs"
    /\ pc = "loop"
    /\ running
    /\ frames < MaxFramesBalls
    /\ \E events \in {<<>>, <<[type |-> "SDL_QUIT"]>>,
                      <<[type |-> "SDL_WINDOWEVENT_RESIZED", data1 |-> 300, data2 |-> 600]>>,
                      <<[type |-> "SDL_KEYDOWN", sym |-> "a"]>>}
                     \cup {<<[type |-> "SDL_KEYUP", sym |-> k]>> : k \in key_down} :
       /\ polled' = events
       /\ running' = (events # <<[type |-> "SDL_QUIT"]>>)
       /\ width' = IF events # <<>> /\ events[1].type = "SDL_WINDOWEVENT_RESIZED"
                   THEN events[1].data1 ELSE width
       /\ height' = IF events # <<>> /\ events[1].type = "SDL_WINDOWEVENT_RESIZED"
                    THEN events[1].data2 ELSE height
       /\ key_down' = IF events # <<>> /\ events[1].type = "SDL_KEYDOWN"
                      THEN key_down \cup {events[1].sym}
                      ELSE IF events # <<>> /\ events[1].type = "SDL_KEYUP"
                      THEN key_down \ {events[1].sym}
                      ELSE key_down
       /\ IF ~running'
          THEN \* if (!running) break; SDL_GL_DeleteContext; SDL_DestroyWindow
               /\ gl_context' = FALSE
               /\ window' = FALSE
               /\ exit_status' = "EXIT_SUCCESS"
               /\ pc' = "exited"
               /\ UNCHANGED <<metaballs, frames>>
          ELSE /\ \E dt \in DtBalls : metaballs' = update_metaballs(metaballs, dt)
               /\ frames' = frames + 1
               /\ UNCHANGED <<pc, window, gl_context, exit_status>>
    /\ UNCHANGED <<prog, step, sdl_error, thrown, stderr_out, history, supplied>>
    /\ UNCHANGED <<paused, time, button_down, p14Frame>>
    /\ UNCHANGED <<sponzaVars, shaderVars, p15Text, session, unwrapped,
                   bezierVars, sceneVars, speed, shader_variation>>

InitMetaballs ==
    /\ Started("metaballs")
    /\ P14Locals({1}, {<<800, 600>>})
    /\ SponzaLocals
    /\ ShaderIdle
    /\ P15Locals
    /\ unwrapped = <<>>
    /\ BezierLocals
    /\ SceneLocals
    /\ HwLocals("homework1")
    /\ \E b \in InitialBalls : metaballs = <<b>>
    /\ session = PlaySession

NextMetaballs == Mb_Iteration

SpecMetaballs == InitMetaballs /\ [][NextMetaballs]_vars

\* C30: after every call of update_metaballs, a ball whose x or y is
\* outside [-range, range] has the direction component of that axis
\* pointing to the inside: position and direction have opposite signs.
C30_OutsidePointsInward ==
    (prog = "metaballs" /\ frames > 0) =>
        \A i \in DOMAIN metaballs : \A axis \in 1..2 :
            Abs(metaballs[i].position[axis]) > range =>
                metaballs[i].position[axis] * metaballs[i].direction[axis] < 0

(* Start-up of all programs *)

InitStartup ==
    /\ prog \in Programs
    /\ pc = "startup"
    /\ step = 1
    /\ window = FALSE
    /\ gl_context = FALSE
    /\ sdl_error = <<>>
    /\ thrown = NoException
    /\ stderr_out = <<>>
    /\ exit_status = "running"
    /\ frames = 0
    /\ history = <<>>
    /\ supplied = <<>>
    /\ P14Locals({1}, {<<800, 600>>})
    /\ SponzaLocals
    /\ OtherLocals
    /\ session = PlaySession

NextStartup ==
    \/ Do_SDL_Init
    \/ Do_SDL_CreateWindow
    \/ Do_check_window
    \/ Do_SDL_GL_CreateContext
    \/ Do_SDL_GL_SetSwapInterval
    \/ Do_check_gl_context
    \/ Do_glewInit
    \/ Do_GLEW_VERSION_3_3
    \/ Do_create_shader
    \/ Do_create_program
    \/ RenderLoop

SpecStartup == InitStartup /\ [][NextStartup]_vars

----------------------------------------------------------------------------
(* Properties of the start-up (SpecStartup) *)

\* positions in the history of the listed start-up steps that failed
FailedSteps ==
    {i \in DOMAIN history : ~history[i].ok /\ history[i].kind \in InitKinds}

\* a failed creation whose check has not run yet: only SDL_GL_SetSwapInterval
\* calls stand between the program position and the check that throws
ThrowPending ==
    LET T == StartupOf(prog)
    IN  /\ pc = "startup"
        /\ \E k \in step..Len(T) :
             /\ T[k].kind \in {"check_window", "check_gl_context"}
             /\ \A m \in step..(k - 1) : T[m].kind = "SDL_GL_SetSwapInterval"

\* C5: when SDL initialisation, window creation, context creation, GLEW
\* initialisation, a shader compilation or a program link has failed, the
\* run ends through the top-level catch: the exception's message is what
\* was printed to standard error, main returned EXIT_FAILURE, and the
\* render loop was not entered (no iteration, no success exit).
C5_FailureExitsThroughCatch ==
    FailedSteps # {} =>
        /\ pc # "loop"
        /\ frames = 0
        /\ exit_status # "EXIT_SUCCESS"
        /\ pc = "startup" => ThrowPending
        /\ pc = "exited" =>
             /\ thrown # NoException
             /\ stderr_out = CStr(thrown) \o endl
             /\ exit_status = "EXIT_FAILURE"

C5_Witness ==
    /\ pc = "exited"
    /\ FailedSteps # {}
    /\ history[Len(history)].kind = "create_program"
    /\ exit_status = "EXIT_FAILURE"

\* C6: every listed start-up statement is attempted at most once per run,
\* and after the first one that failed no further listed start-up
\* statement and no render-loop iteration is executed.
C6_NoRetryNoContinuation ==
    /\ \A i, j \in DOMAIN history :
         (i < j /\ history[i].kind \in InitKinds) => history[i].line # history[j].line
    /\ \A i \in FailedSteps : \A j \in DOMAIN history :
         j > i => history[j].kind \notin InitKinds
    /\ FailedSteps # {} => frames = 0 /\ pc # "loop"

C6_Witness ==
    /\ prog = "sponza"
    /\ pc = "exited"
    /\ FailedSteps # {}
    /\ history[Len(history)].kind = "create_shader"
    /\ Len(history) > 9

\* C7: the text printed for a failed start-up step contains the string the
\* failing layer handed over: SDL_GetError() as read by sdl2_fail, the GLEW
\* error string, or the driver's info log, also in the program whose
\* create_shader adds no prefix.
C7_MessageCarriesLayerString ==
    (pc = "exited" /\ FailedSteps # {}) => Contains(stderr_out, supplied)

C7_Witness ==
    /\ prog = "triangle"
    /\ pc = "exited"
    /\ FailedSteps # {}
    /\ history[Len(history)].kind = "create_shader"
    /\ Len(supplied) > 1
    /\ Contains(stderr_out, supplied)

----------------------------------------------------------------------------
(* Leaving the render loop *)

QuitPolled == {i \in DOMAIN history : history[i].kind = "SDL_QUIT"}

\* the last "events_queued" entry at or before position q
QueuedBefore(q) ==
    CHOOSE i \in 1..q :
        /\ history[i].kind = "events_queued"
        /\ \A j \in (i + 1)..q : history[j].kind # "events_queued"

\* C12: in every program, once SDL_QUIT has been polled the iteration polls
\* every event still queued, then leaves the loop without a draw call or a
\* buffer swap; the GL context is deleted before the window is destroyed and
\* main ends with success status.
C12_QuitLeavesLoop ==
    QuitPolled # {} =>
        LET q == SetMin(QuitPolled)
            s == QueuedBefore(q)
            n == history[s].n
            last == Len(history)
        IN  /\ \A i \in (s + 1)..(s + n) : history[i].kind \in {"SDL_QUIT", "SDL_KEYDOWN"}
            /\ history[s + n + 1].kind = "SDL_PollEvent=0"
            /\ \A i \in q..last : history[i].kind \notin {"draw", "SDL_GL_SwapWindow"}
            /\ history[last - 1].kind = "SDL_GL_DeleteContext"
            /\ history[last].kind = "SDL_DestroyWindow"
            /\ history[last - 1].line = LoopOf(prog).cleanup[1].line
            /\ ~gl_context /\ ~window
            /\ pc = "exited" /\ exit_status = "EXIT_SUCCESS"
            /\ thrown = NoException

C12_Witness ==
    /\ prog = "sponza" /\ pc = "exited" /\ frames = 1
    /\ QuitPolled # {}
    /\ history[SetMin(QuitPolled) + 1].kind = "SDL_KEYDOWN"
    /\ history[SetMin(QuitPolled) - 1].kind = "SDL_KEYDOWN"

====
